---- MODULE Spec2Model ----
(***************************************************************************)
(* Model of the bulk import pipeline of scripts/import-data.ts:            *)
(* streamJsonArray (streaming reader with pause/resume backpressure),      *)
(* importDevices.processBatch, importExtensions and main.                  *)
(***************************************************************************)
EXTENDS Integers, Sequences, FiniteSets, TLC

\* ------------------------------------------------------------------ bounds
\* longest input array of the abstract streaming specification
MaxN == 8
\* largest batchSize argument of streamJsonArray that is tried
MaxBatch == 3

\* --------------------------------------------------------------- constants
\* const CONCURRENCY = 3
CONCURRENCY == 3

VARIABLES
  input,          \* the elements of the top-level JSON array of the file
  batchSize,      \* streamJsonArray's batchSize argument
  pos,            \* number of 'data' events delivered so far
  batch,          \* let batch: T[]
  totalProcessed, \* let totalProcessed
  batchCount,     \* let batchCount
  promises,       \* const promises: indexes into calls, in push order
  calls,          \* every processor invocation started: [items, st]
  paused,         \* the pipeline is paused (pipeline.pause() .. resume())
  pauseGroup,     \* the promises spliced out and awaited by Promise.all(...)
  ended,          \* position of the 'end' handler: no / waiting / done / threw
  outcome,        \* the promise streamJsonArray returns
  value,          \* the value it resolved with
  progress,       \* the last (devices, batches) line written to the console
  streamState,    \* open, or the stage of the pipeline that raised 'error'
  process         \* running / crashed / exit0 / exit1

VARIABLES
  run,            \* which execution of the script this is
  mainPc,         \* the statement main is waiting for, or devices / complete
  stmtIx,         \* index of that statement among those of its loop
  extFile,        \* extensions.json
  platFile,       \* extensions_by_platform.json
  summary,        \* summary.json
  extensionMap,   \* const extensionMap = new Map<string, number>()
  extensions,     \* table extensions
  extensionCoverage, \* table extension_coverage
  devices,        \* table devices
  deviceExtensions,  \* table device_extensions
  deviceLimits,   \* table device_limits
  scrapeMeta,     \* table scrape_meta (its rows, in insertion order)
  extSeq,         \* the serial sequence of extensions.id
  devSeq,         \* the serial sequence of devices.id
  covSeq,         \* the serial sequence of extension_coverage.id
  procs,          \* the locals of each processBatch invocation
  totalImported,  \* let totalImported
  totalErrors,    \* let totalErrors
  failures,       \* number of failures injected so far (statements, stream)
  devFailed,      \* a devices insert of this run failed as a statement
  snap            \* row counts when the first run completed

VARIABLES
  concurrency,    \* processBatches' concurrency argument
  wave,           \* its loop variable i: the index of the first batch of the wave
  runnerResults   \* const results: R[] of processBatches

runnerVars == <<concurrency, wave, runnerResults>>

VARIABLES
  chunkArr,       \* chunk's arr argument
  chunkSize,      \* chunk's size argument
  chunkAt,        \* its loop variable i
  chunks,         \* const chunks: T[][]
  chunkPc         \* where the call is: in the loop, or returned

chunkVars == <<chunkArr, chunkSize, chunkAt, chunks, chunkPc>>

streamVars == <<input, batchSize, pos, batch, totalProcessed, batchCount,
                promises, calls, paused, pauseGroup, ended, outcome, value,
                progress, streamState, process>>

fileVars == <<extFile, platFile, summary>>

dbVars == <<extensions, extensionCoverage, devices, deviceExtensions,
            deviceLimits, scrapeMeta, extSeq, devSeq, covSeq>>

importVars == <<run, mainPc, stmtIx, extFile, platFile, summary, extensionMap,
                extensions, extensionCoverage, devices, deviceExtensions,
                deviceLimits, scrapeMeta, extSeq, devSeq, covSeq, procs,
                totalImported, totalErrors, failures, devFailed, snap>>

vars == <<input, batchSize, pos, batch, totalProcessed, batchCount,
          promises, calls, paused, pauseGroup, ended, outcome, value,
          progress, streamState, process,
          run, mainPc, stmtIx, extFile, platFile, summary, extensionMap,
          extensions, extensionCoverage, devices, deviceExtensions,
          deviceLimits, scrapeMeta, extSeq, devSeq, covSeq, procs,
          totalImported, totalErrors, failures, devFailed, snap,
          concurrency, wave, runnerResults,
          chunkArr, chunkSize, chunkAt, chunks, chunkPc>>

\* ----------------------------------------------------------------- helpers
Range(s) == {s[i] : i \in 1..Len(s)}

Iota(n) == [i \in 1..n |-> i]

RECURSIVE Concat(_)
Concat(ss) == IF ss = <<>> THEN <<>> ELSE Head(ss) \o Concat(Tail(ss))

\* the invocations that have been started and have not settled
InFlight == {i \in 1..Len(calls) : calls[i].st = "pending"}

\* the script is running: it has neither exited nor died of an uncaught
\* exception
Alive == process = "running"

\* resolve(..) / reject(..) of an already settled promise change nothing
Settle(o) == IF outcome = "pending" THEN o ELSE outcome

\* ------------------------------------------------------- pure helpers
\* a mutant of Slice: the end index is taken as inclusive
SliceInclusive(arr, from, to) ==
  SubSeq(arr, from + 1, IF to + 1 > Len(arr) THEN Len(arr) ELSE to + 1)

\* arr.slice(from, to) for 0 <= from <= to (0-based, to exclusive, clamped)
Slice(arr, from, to) ==
  SubSeq(arr, from + 1, IF to > Len(arr) THEN Len(arr) ELSE to)

\* function chunk: for (let i = 0; i < arr.length; i += size) push(slice)
RECURSIVE ChunkFrom(_, _, _)
ChunkFrom(arr, size, i) ==
  IF i < Len(arr)
  THEN <<Slice(arr, i, i + size)>> \o ChunkFrom(arr, size, i + size)
  ELSE <<>>

chunk(arr, size) == ChunkFrom(arr, size, 0)

\* const INSERT_BATCH_SIZE = 100
INSERT_BATCH_SIZE == 100

\* arr.filter(keep), for a set of kept elements
RECURSIVE Filter(_, _)
Filter(arr, keep) ==
  IF arr = <<>> THEN <<>>
  ELSE IF Len(arr) = 1
       THEN (IF arr[1] \in keep THEN arr ELSE <<>>)
       ELSE LET half == Len(arr) \div 2 IN
            Filter(SubSeq(arr, 1, half), keep)
            \o Filter(SubSeq(arr, half + 1, Len(arr)), keep)

\* function parseCoverage on the coverage texts of the modelled files:
\* null and the empty string are falsy, a text without ">number<" has no
\* match, "<span>95.0</span>" yields parseFloat("95.0")
parseCoverage(html) ==
  CASE html = "null" -> 0
    [] html = "" -> 0
    [] html = "<span>95.0</span>" -> 95
    [] html = "<span>50.0</span>" -> 50
    [] OTHER -> 0

\* a mutant of RoundDiv: Math.floor(x / y)
FloorDiv(x, y) == x \div y

\* Math.round(x / y) for integers x >= 0 and y > 0
RoundDiv(x, y) == (2 * x + y) \div (2 * y)

\* extensionMap.has(name)
MapHas(m, name) == name \in DOMAIN m

\* extensionMap.set(name, id)
MapSet(m, name, id) ==
  [n \in DOMAIN m \cup {name} |-> IF n = name THEN id ELSE m[n]]

\* the empty Map
EmptyMap == [n \in {} |-> 0]

\* ------------------------------------------------- database statements
\* a mutant of ReportIdTaken: the devices table has no unique report_id
ReportIdFree(table, rid) == FALSE

\* reportId: integer('report_id').unique(): a row with this report id exists
ReportIdTaken(table, rid) == \E d \in table : d.reportId = rid

\* a mutant of ConflictDoNothing: the proposed values replace those of the
\* row that holds the report id (ON CONFLICT DO UPDATE)
ConflictDoUpdate(table, r) ==
  {IF d.reportId = r.reportId
   THEN [id |-> d.id, reportId |-> d.reportId, src |-> r.src]
   ELSE d : d \in table}

\* .onConflictDoNothing(): the table after a proposed row met a conflict
ConflictDoNothing(table, r) == table

\* a mutant of InsertDevices: the row that holds the report id is returned
\* too, as .onConflictDoUpdate(..).returning(..) does
RECURSIVE InsertDevicesReturningAll(_, _, _)
InsertDevicesReturningAll(table, rows, seq) ==
  IF rows = <<>> THEN [table |-> table, returned |-> <<>>, seq |-> seq]
  ELSE LET r == Head(rows) IN
       IF ReportIdTaken(table, r.reportId)
       THEN LET old == CHOOSE d \in table : d.reportId = r.reportId
                rest == InsertDevicesReturningAll(table, Tail(rows), seq + 1)
            IN [table |-> rest.table,
                returned |-> <<[id |-> old.id, reportId |-> old.reportId]>>
                             \o rest.returned,
                seq |-> rest.seq]
       ELSE LET row == [id |-> seq, reportId |-> r.reportId, src |-> r.src]
                rest == InsertDevicesReturningAll(table \cup {row}, Tail(rows),
                                                  seq + 1)
            IN [table |-> rest.table,
                returned |-> <<[id |-> seq, reportId |-> r.reportId]>>
                             \o rest.returned,
                seq |-> rest.seq]

\* a mutant of InsertDevices: a skipped row is returned too, with the id that
\* serial drew for it and that no row carries
RECURSIVE InsertDevicesReturningDrawn(_, _, _)
InsertDevicesReturningDrawn(table, rows, seq) ==
  IF rows = <<>> THEN [table |-> table, returned |-> <<>>, seq |-> seq]
  ELSE LET r == Head(rows)
           row == [id |-> seq, reportId |-> r.reportId, src |-> r.src]
           rest == InsertDevicesReturningDrawn(
                     IF ReportIdTaken(table, r.reportId) THEN table
                     ELSE table \cup {row},
                     Tail(rows), seq + 1)
       IN [table |-> rest.table,
           returned |-> <<[id |-> seq, reportId |-> r.reportId]>>
                        \o rest.returned,
           seq |-> rest.seq]

\* db.insert(schema.devices).values(rows).onConflictDoNothing().returning(
\* {id, reportId}): rows are taken in order; serial draws an id for every
\* proposed row, a row whose report id is taken (by an older row or by an
\* earlier row of this statement) is skipped.
\* The result is [table, returned, seq].
RECURSIVE InsertDevices(_, _, _)
InsertDevices(table, rows, seq) ==
  IF rows = <<>> THEN [table |-> table, returned |-> <<>>, seq |-> seq]
  ELSE LET r == Head(rows) IN
       IF ReportIdTaken(table, r.reportId)
       THEN InsertDevices(ConflictDoNothing(table, r), Tail(rows), seq + 1)
       ELSE LET row == [id |-> seq, reportId |-> r.reportId, src |-> r.src]
                rest == InsertDevices(table \cup {row}, Tail(rows), seq + 1)
            IN [table |-> rest.table,
                returned |-> <<[id |-> seq, reportId |-> r.reportId]>>
                             \o rest.returned,
                seq |-> rest.seq]

\* ON CONFLICT DO UPDATE fails when one statement proposes a name twice
\* ("command cannot affect row a second time")
AffectsRowTwice(rows) ==
  \E i, j \in 1..Len(rows) : i < j /\ rows[i].name = rows[j].name

\* the row of the extensions table with this name (name is unique)
ExtensionRow(table, name) == CHOOSE e \in table : e.name = name

\* the values the DO UPDATE SET clause assigns: each column is set to
\* schema.extensions.<column>, the column of the existing row
UpdateSet(existing, proposed) ==
  [id |-> existing.id, name |-> existing.name,
   dateAdded |-> existing.dateAdded,
   hasFeatures |-> existing.hasFeatures,
   hasProperties |-> existing.hasProperties]

\* a mutant of UpsertExtensions: .onConflictDoNothing(), which skips the rows
\* whose name is taken and does not return them
RECURSIVE UpsertExtensionsDoNothing(_, _, _)
UpsertExtensionsDoNothing(table, rows, seq) ==
  IF rows = <<>> THEN [table |-> table, returned |-> <<>>, seq |-> seq]
  ELSE LET r == Head(rows) IN
       IF \E e \in table : e.name = r.name
       THEN UpsertExtensionsDoNothing(table, Tail(rows), seq + 1)
       ELSE LET row == [id |-> seq, name |-> r.name,
                        dateAdded |-> r.dateAdded,
                        hasFeatures |-> r.hasFeatures,
                        hasProperties |-> r.hasProperties]
                rest == UpsertExtensionsDoNothing(table \cup {row}, Tail(rows),
                                                  seq + 1)
            IN [table |-> rest.table,
                returned |-> <<[id |-> seq, name |-> r.name]>> \o rest.returned,
                seq |-> rest.seq]

\* db.insert(schema.extensions).values(rows).onConflictDoUpdate({target:
\* name, set}).returning({id, name}), for rows with distinct names: serial
\* draws an id for every proposed row, and every row, inserted or updated, is
\* returned.  The result is [table, returned, seq].
UpsertExtensions(table, rows, seq) ==
  LET row(i) ==
        IF \E e \in table : e.name = rows[i].name
        THEN UpdateSet(ExtensionRow(table, rows[i].name), rows[i])
        ELSE [id |-> seq + i - 1, name |-> rows[i].name,
              dateAdded |-> rows[i].dateAdded,
              hasFeatures |-> rows[i].hasFeatures,
              hasProperties |-> rows[i].hasProperties]
  IN [table |-> {e \in table : \A i \in 1..Len(rows) : rows[i].name # e.name}
                \cup {row(i) : i \in 1..Len(rows)},
      returned |-> [i \in 1..Len(rows) |->
                      [id |-> row(i).id, name |-> row(i).name]],
      seq |-> seq + Len(rows)]

\* a mutant of CoverageTaken: extension_coverage has no unique constraint
CoverageFree(table, r) == FALSE

\* unique('uq_extension_platform').on(extensionId, platform)
CoverageTaken(table, r) ==
  \E c \in table : c.extensionId = r.extensionId /\ c.platform = r.platform

\* a mutant of InsertCoverage: a row whose (extension, platform) pair is
\* taken replaces the columns of the row that holds the pair, as
\* .onConflictDoUpdate with the proposed values does
InsertCoverageOverwrites(table, rows, seq) ==
  LET holder(i) ==
        CHOOSE c \in table : c.extensionId = rows[i].extensionId
                               /\ c.platform = rows[i].platform
  IN [table |-> {c \in table : \A i \in 1..Len(rows) : ~CoverageTaken({c}, rows[i])}
                \cup {[id |-> IF CoverageTaken(table, rows[i])
                              THEN holder(i).id ELSE seq + i - 1,
                       extensionId |-> rows[i].extensionId,
                       platform |-> rows[i].platform,
                       coveragePercent |-> rows[i].coveragePercent,
                       deviceCount |-> rows[i].deviceCount,
                       totalDevices |-> rows[i].totalDevices] :
                        i \in 1..Len(rows)},
      seq |-> seq + Len(rows)]

\* db.insert(schema.extensionCoverage).values(rows).onConflictDoNothing():
\* serial draws an id for every proposed row, a row whose (extension,
\* platform) pair is taken, by an older row or by an earlier row of this
\* statement, is skipped.  The result is [table, seq].
InsertCoverage(table, rows, seq) ==
  LET skipped(i) ==
        CoverageTaken(table \cup {rows[j] : j \in 1..(i - 1)}, rows[i])
  IN [table |-> table \cup
                  {[id |-> seq + i - 1,
                    extensionId |-> rows[i].extensionId,
                    platform |-> rows[i].platform,
                    coveragePercent |-> rows[i].coveragePercent,
                    deviceCount |-> rows[i].deviceCount,
                    totalDevices |-> rows[i].totalDevices] :
                     i \in {k \in 1..Len(rows) : ~skipped(k)}},
      seq |-> seq + Len(rows)]

\* a mutant of InsertScrapeMeta: a row equal to a stored row is skipped
InsertScrapeMetaOnce(table, row) ==
  IF \E k \in 1..Len(table) : table[k] = row THEN table ELSE Append(table, row)

\* db.insert(schema.scrapeMeta).values(row): scrape_meta has a serial key and
\* no unique constraint, the row is added after the rows it holds
InsertScrapeMeta(table, row) == Append(table, row)

\* primaryKey({columns: [deviceId, extensionId]}) with onConflictDoNothing
RECURSIVE InsertDeviceExtensions(_, _)
InsertDeviceExtensions(table, rows) ==
  IF rows = <<>> THEN table
  ELSE LET r == Head(rows) IN
       IF \E x \in table : x.deviceId = r.deviceId /\ x.extensionId = r.extensionId
       THEN InsertDeviceExtensions(table, Tail(rows))
       ELSE InsertDeviceExtensions(table \cup {r}, Tail(rows))

\* deviceId: integer('device_id').primaryKey() with onConflictDoNothing
RECURSIVE InsertDeviceLimits(_, _)
InsertDeviceLimits(table, rows) ==
  IF rows = <<>> THEN table
  ELSE LET r == Head(rows) IN
       IF \E x \in table : x.deviceId = r.deviceId
       THEN InsertDeviceLimits(table, Tail(rows))
       ELSE InsertDeviceLimits(table \cup {r}, Tail(rows))

\* ------------------------------------------------------ importExtensions
\* ext.date || null
DateOrNull(d) == IF d = "" THEN "null" ELSE d

\* const extensionValues = extensionsData.map(...)
extensionValues ==
  [i \in 1..Len(extFile) |->
     [name |-> extFile[i].name,
      dateAdded |-> DateOrNull(extFile[i].date),
      hasFeatures |-> extFile[i].features_url # "null",
      hasProperties |-> extFile[i].properties_url # "null"]]

\* the entries of a file whose name is in the map: .filter(ext => map.has)
Known(entries, map) ==
  Filter(entries, {e \in Range(entries) : MapHas(map, e.name)})

\* const allCoverageValues = extensionsData.filter(...).map(...)
allCoverageValues(map) ==
  LET kept == Known(extFile, map) IN
  [i \in 1..Len(kept) |->
     [extensionId |-> map[kept[i].name],
      platform |-> "all",
      coveragePercent |-> parseCoverage(kept[i].coverage),
      deviceCount |->
        RoundDiv(parseCoverage(kept[i].coverage) * summary.total_reports, 100),
      totalDevices |-> summary.total_reports]]

\* a mutant of platforms: every key of the modelled files is imported
platformsWithWeb == <<"windows", "linux", "android", "macos", "ios", "web">>

\* const platforms = ['windows', 'linux', 'android', 'macos', 'ios']
platforms == <<"windows", "linux", "android", "macos", "ios">>

\* const coverageValues = platformData.filter(...).map(...)
coverageValues(platform, map) ==
  LET kept == Known(platFile[platform], map) IN
  [i \in 1..Len(kept) |->
     [extensionId |-> map[kept[i].name],
      platform |-> platform,
      coveragePercent |-> parseCoverage(kept[i].coverage),
      deviceCount |-> 0,
      totalDevices |-> 0]]

\* the statements of the per-platform loop, in order: a platform without an
\* entry in the file is skipped (continue)
RECURSIVE PlatformStatements(_, _)
PlatformStatements(k, map) ==
  IF k > Len(platforms) THEN <<>>
  ELSE (IF platforms[k] \in DOMAIN platFile
        THEN chunk(coverageValues(platforms[k], map), INSERT_BATCH_SIZE)
        ELSE <<>>)
       \o PlatformStatements(k + 1, map)

\* the loops of importExtensions, in order, each awaiting its statements
Phases == <<"extensions", "coverageAll", "coveragePlatform", "scrapeMeta">>

PhaseIndex(ph) == CHOOSE k \in 1..Len(Phases) : Phases[k] = ph

\* the values of the statements a loop issues
RefStatements(ph, map) ==
  CASE ph = "extensions" -> chunk(extensionValues, INSERT_BATCH_SIZE)
    [] ph = "coverageAll" -> chunk(allCoverageValues(map), INSERT_BATCH_SIZE)
    [] ph = "coveragePlatform" -> PlatformStatements(1, map)
    [] ph = "scrapeMeta" ->
         <<[scrapeDate |-> summary.scrape_date,
            totalExtensions |-> summary.total_extensions,
            totalReports |-> summary.total_reports]>>

\* the first statement at or after loop k; after the last loop importExtensions
\* returns and main calls importDevices
RECURSIVE FirstFrom(_, _)
FirstFrom(k, map) ==
  IF k > Len(Phases) THEN [pc |-> "devices", ix |-> 0]
  ELSE IF Len(RefStatements(Phases[k], map)) > 0
       THEN [pc |-> Phases[k], ix |-> 1]
       ELSE FirstFrom(k + 1, map)

\* a mutant of Advance: importExtensions returns after the statement it
\* awaits, whatever is left to do
AdvanceReturnsEarly(ph, ix, map) == [pc |-> "devices", ix |-> 0]

\* the statement awaited after statement ix of loop ph
Advance(ph, ix, map) ==
  IF ix < Len(RefStatements(ph, map))
  THEN [pc |-> ph, ix |-> ix + 1]
  ELSE FirstFrom(PhaseIndex(ph) + 1, map)

\* for (const r of results) extensionMap.set(r.name, r.id)
SetAll(map, results) ==
  LET sets(n) == {i \in 1..Len(results) : results[i].name = n} IN
  [n \in DOMAIN map \cup {results[i].name : i \in 1..Len(results)} |->
     IF sets(n) = {} THEN map[n]
     ELSE results[CHOOSE i \in sets(n) : \A j \in sets(n) : j <= i].id]

\* a mutant of StageLinks: the test if (extId) is missing, and a name the map
\* lacks is staged without an id
RECURSIVE StageLinksUnchecked(_, _, _)
StageLinksUnchecked(rid, exts, map) ==
  IF exts = <<>> THEN <<>>
  ELSE <<[reportId |-> rid,
          extensionId |-> IF MapHas(map, Head(exts).extensionName)
                          THEN map[Head(exts).extensionName] ELSE 0,
          specVersion |-> Head(exts).specVersion]>>
       \o StageLinksUnchecked(rid, Tail(exts), map)

\* ---------------------------------------------- importDevices.processBatch
\* the links staged for one report: names the map lacks (extId undefined)
\* and a falsy id stage nothing
RECURSIVE StageLinks(_, _, _)
StageLinks(rid, exts, map) ==
  IF exts = <<>> THEN <<>>
  ELSE (IF MapHas(map, Head(exts).extensionName)
           /\ map[Head(exts).extensionName] # 0
        THEN <<[reportId |-> rid,
                extensionId |-> map[Head(exts).extensionName],
                specVersion |-> Head(exts).specVersion]>>
        ELSE <<>>)
       \o StageLinks(rid, Tail(exts), map)

\* the shapes a report of device_reports.json takes: well formed; without a
\* properties object (report.properties.deviceName throws while the argument
\* of deviceValues.push is evaluated); with an extensions member that is
\* truthy and not iterable (for (const ext of report.extensions) throws)
Shapes == {"ok", "noProperties", "extensionsNotIterable"}

\* the try block of this report throws: catch (error) { totalErrors++ }
Throws(report) == report.shape # "ok"

\* deviceValues.push({...}), the first statement of the try block
StageDevice(report) ==
  IF report.shape = "noProperties" THEN <<>>
  ELSE <<[reportId |-> report.rid, src |-> report.src]>>

\* if (report.extensions) for (const ext of report.extensions) ...
StageReportLinks(report, map) ==
  IF report.shape = "ok" THEN StageLinks(report.rid, report.exts, map) ELSE <<>>

\* deviceLimitsValues.push({...}), reached when nothing before it threw
StageLimits(report) ==
  IF report.shape = "ok"
  THEN <<[reportId |-> report.rid, src |-> report.src]>>
  ELSE <<>>

\* deviceValues after the loop over the batch
RECURSIVE StageAllDevices(_)
StageAllDevices(items) ==
  IF items = <<>> THEN <<>>
  ELSE StageDevice(Head(items)) \o StageAllDevices(Tail(items))

\* deviceExtValues after the loop over the batch
RECURSIVE StageAllLinks(_, _)
StageAllLinks(items, map) ==
  IF items = <<>> THEN <<>>
  ELSE StageReportLinks(Head(items), map) \o StageAllLinks(Tail(items), map)

\* deviceLimitsValues after the loop over the batch
RECURSIVE StageAllLimits(_)
StageAllLimits(items) ==
  IF items = <<>> THEN <<>>
  ELSE StageLimits(Head(items)) \o StageAllLimits(Tail(items))

\* how many times the loop over the batch ran totalErrors++
RECURSIVE TransformErrors(_)
TransformErrors(items) ==
  IF items = <<>> THEN 0
  ELSE (IF Throws(Head(items)) THEN 1 ELSE 0) + TransformErrors(Tail(items))

\* for (const r of deviceResults) if (r.reportId) deviceIdMap.set(..)
RECURSIVE SetDeviceIds(_, _)
SetDeviceIds(map, results) ==
  IF results = <<>> THEN map
  ELSE SetDeviceIds(
         IF Head(results).reportId # 0
         THEN MapSet(map, Head(results).reportId, Head(results).id)
         ELSE map,
         Tail(results))

\* the row sets of insertRelated, in the order they are inserted.  The reports
\* of the modelled files carry no core11..core14 and no extended block, so the
\* other four row sets are empty and chunk() yields no statement for them.
Related == <<"deviceExtensions", "deviceLimits">>

\* deviceExtValues.filter(v => deviceIdMap.has(v.reportId)).map(...)
extValuesWithIds(p) ==
  LET kept == Filter(p.deviceExtValues,
                     {v \in Range(p.deviceExtValues) :
                        MapHas(p.deviceIdMap, v.reportId)}) IN
  [i \in 1..Len(kept) |->
     [deviceId |-> p.deviceIdMap[kept[i].reportId],
      extensionId |-> kept[i].extensionId,
      specVersion |-> kept[i].specVersion]]

\* deviceLimitsValues.filter(v => deviceIdMap.has(v.reportId)).map(...)
limitsWithIds(p) ==
  LET kept == Filter(p.deviceLimitsValues,
                     {v \in Range(p.deviceLimitsValues) :
                        MapHas(p.deviceIdMap, v.reportId)}) IN
  [i \in 1..Len(kept) |->
     [deviceId |-> p.deviceIdMap[kept[i].reportId], src |-> kept[i].src]]

\* the values of the statements of one row set of insertRelated
RelatedStatements(p, k) ==
  IF Related[k] = "deviceExtensions"
  THEN chunk(extValuesWithIds(p), INSERT_BATCH_SIZE)
  ELSE chunk(limitsWithIds(p), INSERT_BATCH_SIZE)

RelatedIndex(st) == CHOOSE k \in 1..Len(Related) : Related[k] = st

\* the first statement of insertRelated at or after row set k; after the last
\* one processBatch returns
RECURSIVE FirstRelated(_, _)
FirstRelated(p, k) ==
  IF k > Len(Related) THEN [pc |-> "done", ix |-> 0]
  ELSE IF Len(RelatedStatements(p, k)) > 0
       THEN [pc |-> Related[k], ix |-> 1]
       ELSE FirstRelated(p, k + 1)

\* the statement awaited after statement ix of a row set
AdvanceRelated(p) ==
  IF p.ix < Len(RelatedStatements(p, RelatedIndex(p.pc)))
  THEN [pc |-> p.pc, ix |-> p.ix + 1]
  ELSE FirstRelated(p, RelatedIndex(p.pc) + 1)

\* processBatch up to its first await: the loop over the batch, then the
\* devices insert is issued unless deviceValues is empty.  caught lists the
\* statements of this invocation whose catch block has run, inserted the ids
\* of the devices rows its insert added to the table.
StartBatch(items, map) ==
  LET p == [pc |-> "devices", ix |-> 1,
            deviceValues |-> StageAllDevices(items),
            deviceExtValues |-> StageAllLinks(items, map),
            deviceLimitsValues |-> StageAllLimits(items),
            deviceResults |-> <<>>,
            deviceIdMap |-> EmptyMap,
            caught |-> <<>>,
            inserted |-> {}]
  IN IF Len(p.deviceValues) > 0 THEN p
     ELSE [p EXCEPT !.pc = FirstRelated(p, 1).pc, !.ix = FirstRelated(p, 1).ix]

\* --------------------------------------------------------- streamJsonArray
StreamInit ==
  /\ pos = 0
  /\ batch = <<>>
  /\ totalProcessed = 0
  /\ batchCount = 0
  /\ promises = <<>>
  /\ calls = <<>>
  /\ paused = FALSE
  /\ pauseGroup = <<>>
  /\ ended = "no"
  /\ outcome = "pending"
  /\ value = 0
  /\ progress = <<>>
  /\ streamState = "open"
  /\ process = "running"

\* promises.splice(0, CONCURRENCY): the elements removed
SpliceTaken(ps) ==
  SubSeq(ps, 1, IF Len(ps) < CONCURRENCY THEN Len(ps) ELSE CONCURRENCY)

\* promises.splice(0, CONCURRENCY): the elements left in the array
SpliceLeft(ps) ==
  SubSeq(ps, (IF Len(ps) < CONCURRENCY THEN Len(ps) ELSE CONCURRENCY) + 1, Len(ps))

\* a mutant of MustPause: the comparison is strict
MustPauseLate(ps) == Len(ps) > CONCURRENCY

\* if (promises.length >= CONCURRENCY) { pipeline.pause(); Promise.all(splice) }
MustPause(ps) == Len(ps) >= CONCURRENCY

\* a mutant of BatchFull: the comparison is strict
BatchFullStrict(b) == Len(b) > batchSize

\* if (batch.length >= batchSize)
BatchFull(b) == Len(b) >= batchSize

\* a mutant of AllFulfilled: the first fulfilment settles the wait
AnyFulfilled(ps) == \E i \in Range(ps) : calls[i].st = "resolved"

\* a mutant of AllFulfilled: the wait is over when every promise of ps has
\* settled, fulfilled or rejected, as with Promise.allSettled
AllSettled(ps) == \A i \in Range(ps) : calls[i].st # "pending"

\* Promise.all(ps) is fulfilled: every promise of ps is
AllFulfilled(ps) == \A i \in Range(ps) : calls[i].st = "resolved"

\* Promise.all(ps) is rejected: some promise of ps is
SomeRejected(ps) == \E i \in Range(ps) : calls[i].st = "rejected"

\* a mutant of FlushTotal: the final batch is not counted
FlushTotalForgotten(t, b) == t

\* totalProcessed += batch.length, of the 'end' handler
FlushTotal(t, b) == t + Len(b)

\* a mutant of AfterResume: pipeline.resume() is not called
AfterResumeMissing == TRUE

\* the paused flag after pipeline.resume()
AfterResume == FALSE

\* the promise processBatch(items) returns, right after the call: it is
\* already fulfilled when processBatch has no statement to await
BatchStarted(items) ==
  IF StartBatch(items, extensionMap).pc = "done" THEN "resolved" ELSE "pending"

\* the promise processor(items) returns, right after the call; the processor
\* is processBatch when importing, and left abstract otherwise
Started(importing, items) ==
  IF importing THEN BatchStarted(items) ELSE "pending"

\* pipeline.on('data', ...): the effect of one element on the locals of
\* streamJsonArray
OnData(importing) ==
  /\ Alive
  /\ streamState = "open"
  /\ ~paused
  /\ ended = "no"
  /\ pos < Len(input)
  /\ pos' = pos + 1
  /\ LET b == Append(batch, input[pos + 1]) IN
     IF BatchFull(b)
     THEN /\ batch' = <<>>
          /\ batchCount' = batchCount + 1
          /\ totalProcessed' = totalProcessed + Len(b)
          /\ calls' = Append(calls, [items |-> b, st |-> Started(importing, b)])
          /\ IF MustPause(promises)
             THEN /\ paused' = TRUE
                  /\ pauseGroup' = SpliceTaken(promises)
                  /\ promises' = Append(SpliceLeft(promises), Len(calls) + 1)
             ELSE /\ promises' = Append(promises, Len(calls) + 1)
                  /\ UNCHANGED <<paused, pauseGroup>>
     ELSE /\ batch' = b
          /\ UNCHANGED <<batchCount, totalProcessed, calls, promises, paused,
                         pauseGroup>>
  /\ UNCHANGED <<input, batchSize, ended, outcome, value, progress, streamState,
                 process>>

\* Promise.all(spliced).then(() => { write progress; pipeline.resume() })
PauseGroupResolved ==
  /\ Alive
  /\ paused
  /\ pauseGroup # <<>>
  /\ AllFulfilled(pauseGroup)
  /\ progress' = <<totalProcessed, batchCount>>
  /\ paused' = AfterResume
  /\ pauseGroup' = <<>>
  /\ UNCHANGED <<input, batchSize, pos, batch, totalProcessed, batchCount,
                 promises, calls, ended, outcome, value, streamState, process>>
  /\ UNCHANGED <<importVars, runnerVars, chunkVars>>

\* Promise.all(spliced) ... .catch(reject): the stream is never resumed
PauseGroupRejected ==
  /\ Alive
  /\ pauseGroup # <<>>
  /\ SomeRejected(pauseGroup)
  /\ outcome = "pending"
  /\ outcome' = "rejected"
  /\ UNCHANGED <<input, batchSize, pos, batch, totalProcessed, batchCount,
                 promises, calls, paused, pauseGroup, ended, value, progress,
                 streamState, process>>
  /\ UNCHANGED <<importVars, runnerVars, chunkVars>>

\* pipeline.on('end', async () => ...) up to its await: 'end' is emitted only
\* by a flowing stream whose elements have all been consumed
OnEnd(importing) ==
  /\ Alive
  /\ streamState = "open"
  /\ ~paused
  /\ ended = "no"
  /\ pos = Len(input)
  /\ ended' = "waiting"
  /\ IF Len(batch) > 0
     THEN /\ calls' = Append(calls, [items |-> batch, st |-> Started(importing, batch)])
          /\ promises' = Append(promises, Len(calls) + 1)
          /\ totalProcessed' = FlushTotal(totalProcessed, batch)
     ELSE UNCHANGED <<calls, promises, totalProcessed>>
  /\ UNCHANGED <<input, batchSize, pos, batch, batchCount, paused, pauseGroup,
                 outcome, value, progress, streamState, process>>

\* the batch count the 'end' handler prints
FinalBatchCount == batchCount + 1

\* await Promise.all(promises) fulfilled; console.log; resolve(totalProcessed)
EndResolved ==
  /\ Alive
  /\ ended = "waiting"
  /\ AllFulfilled(promises)
  /\ progress' = <<totalProcessed, FinalBatchCount>>
  /\ outcome' = Settle("resolved")
  /\ value' = IF outcome = "pending" THEN totalProcessed ELSE value
  /\ ended' = "done"
  /\ UNCHANGED <<input, batchSize, pos, batch, totalProcessed, batchCount,
                 promises, calls, paused, pauseGroup, streamState, process>>
  /\ UNCHANGED <<importVars, runnerVars, chunkVars>>

\* what the runtime does with a rejection that no handler observes: it
\* reports it and goes on, or ends the process
UnhandledRejection == {"running", "crashed"}

\* await Promise.all(promises) rejected: the async 'end' handler throws, and
\* nothing observes the promise it returns; resolve and reject are not called
EndRejected ==
  /\ Alive
  /\ ended = "waiting"
  /\ SomeRejected(promises)
  /\ ended' = "threw"
  /\ process' \in UnhandledRejection
  /\ UNCHANGED <<input, batchSize, pos, batch, totalProcessed, batchCount,
                 promises, calls, paused, pauseGroup, outcome, value, progress,
                 streamState>>
  /\ UNCHANGED <<importVars, runnerVars, chunkVars>>

\* the stages of createReadStream(path).pipe(parser()).pipe(streamArray())
Stages == {"file", "parser", "streamArray"}

\* the stages whose 'error' event has a listener: pipeline.on('error', reject)
\* is registered on the value of the pipe chain, the last stage
Listened == {"streamArray"}

\* an 'error' event of one stage; pipe() does not forward errors, and an
\* 'error' event without a listener is thrown as an uncaught exception.
\* Rejected is what becomes of the script when the caller sees the rejection
OnError(Rejected) ==
  /\ Alive
  /\ streamState = "open"
  /\ ended = "no"
  /\ \E stage \in Stages :
       /\ streamState' = stage
       /\ IF stage \in Listened
          THEN /\ outcome' = Settle("rejected")
               /\ process' = Rejected
          ELSE /\ process' = "crashed"
               /\ UNCHANGED outcome
  /\ UNCHANGED <<input, batchSize, pos, batch, totalProcessed, batchCount,
                 promises, calls, paused, pauseGroup, ended, value, progress>>

\* ------------------------------------------ the processor, left abstract
\* the invocations whose promise has a handler: those handed to Promise.all
Observed ==
  Range(pauseGroup) \cup (IF ended = "waiting" THEN Range(promises) ELSE {})

\* the promise of invocation i fulfils
ProcessorResolves ==
  /\ Alive
  /\ \E i \in InFlight : calls' = [calls EXCEPT ![i].st = "resolved"]
  /\ UNCHANGED <<input, batchSize, pos, batch, totalProcessed, batchCount,
                 promises, paused, pauseGroup, ended, outcome, value, progress,
                 streamState, process>>
  /\ UNCHANGED <<importVars, runnerVars, chunkVars>>

\* the promise of invocation i rejects; promises.push(processor(..)) attaches
\* no handler, so until a Promise.all takes it the rejection is unobserved
ProcessorRejects ==
  /\ Alive
  /\ \E i \in InFlight :
       /\ calls' = [calls EXCEPT ![i].st = "rejected"]
       /\ IF i \in Observed
          THEN UNCHANGED process
          ELSE process' \in UnhandledRejection
  /\ UNCHANGED <<input, batchSize, pos, batch, totalProcessed, batchCount,
                 promises, paused, pauseGroup, ended, outcome, value, progress,
                 streamState>>
  /\ UNCHANGED <<importVars, runnerVars, chunkVars>>

\* no call of chunk is being followed step by step
ChunkIdle ==
  /\ chunkArr = <<>>
  /\ chunkSize = 1
  /\ chunkAt = 0
  /\ chunks = <<>>
  /\ chunkPc = "returned"

\* processBatches is not called
RunnerIdle ==
  /\ concurrency = 0
  /\ wave = 0
  /\ runnerResults = <<>>

\* -------------------------------- specification: streamJsonArray by itself
\* the import state does not move while streamJsonArray is studied alone
ImportIdle ==
  /\ run = 1
  /\ mainPc = "devices"
  /\ stmtIx = 0
  /\ extFile = <<>>
  /\ platFile = <<>>
  /\ summary = <<>>
  /\ extensionMap = <<>>
  /\ extensions = {}
  /\ extensionCoverage = {}
  /\ devices = {}
  /\ deviceExtensions = {}
  /\ deviceLimits = {}
  /\ scrapeMeta = <<>>
  /\ extSeq = 1
  /\ devSeq = 1
  /\ covSeq = 1
  /\ procs = <<>>
  /\ totalImported = 0
  /\ totalErrors = 0
  /\ failures = 0
  /\ devFailed = FALSE
  /\ snap = <<>>

InitStream ==
  /\ input \in {Iota(n) : n \in 0..MaxN}
  /\ batchSize \in 1..MaxBatch
  /\ StreamInit
  /\ ImportIdle
  /\ RunnerIdle
  /\ ChunkIdle

StreamData == OnData(FALSE) /\ UNCHANGED <<importVars, runnerVars, chunkVars>>

StreamEnd == OnEnd(FALSE) /\ UNCHANGED <<importVars, runnerVars, chunkVars>>

StreamError == OnError("running") /\ UNCHANGED <<importVars, runnerVars, chunkVars>>

NextStream ==
  \/ StreamData
  \/ StreamEnd
  \/ PauseGroupResolved
  \/ PauseGroupRejected
  \/ EndResolved
  \/ EndRejected
  \/ StreamError
  \/ ProcessorResolves
  \/ ProcessorRejects

SpecStream == InitStream /\ [][NextStream]_vars

\* ----------------------------------------------- specification: the script
\* most reports of device_reports.json
MaxReports == 4
\* largest report id of the file (report ids are 0..MaxRid)
MaxRid == 1
\* most entries of extensions.json
MaxExt == 2
\* most statements and stream stages that fail in one behaviour
MaxFailures == 1
\* how many times the script is run against the same files
MaxRuns == 2
\* largest DEVICE_BATCH_SIZE that is tried
MaxDeviceBatch == 2

\* the entries extensions.json is made of
ExtEntries ==
  {[name |-> n, coverage |-> "<span>95.0</span>", features_url |-> "null",
    properties_url |-> "x", date |-> "2020-01-01"] : n \in {"A", "B"}}

\* the extensions_by_platform.json files tried: no platform at all; or linux
\* (one listed extension, one unlisted) and a platform that is not imported
PlatFiles ==
  {EmptyMap,
   [pf \in {"linux", "web"} |->
      IF pf = "linux"
      THEN <<[name |-> "A", coverage |-> "<span>50.0</span>"],
             [name |-> "Z", coverage |-> "null"]>>
      ELSE <<[name |-> "A", coverage |-> "<span>50.0</span>"]>>]}

\* the extensions array every report carries: "A", which extensions.json may
\* list, and "Z", which it never lists
ExtLists ==
  {<<[extensionName |-> "A", specVersion |-> 1],
     [extensionName |-> "Z", specVersion |-> 2]>>}

\* the sequences over S of length at most n
SeqsUpTo(S, n) == UNION {[1..k -> S] : k \in 0..n}

\* the device_reports.json files tried, of well-formed reports; src stands
\* for the content of the report at that place of the file
ReportFiles ==
  {[i \in 1..Len(f) |->
      [rid |-> f[i][1], src |-> i, exts |-> f[i][2], shape |-> "ok"]] :
     f \in SeqsUpTo((0..MaxRid) \X ExtLists, MaxReports)}

\* the script starts: empty locals, and main awaits the first statement of
\* importExtensions
ScriptStart ==
  /\ StreamInit
  /\ extensionMap = EmptyMap
  /\ mainPc = FirstFrom(1, EmptyMap).pc
  /\ stmtIx = FirstFrom(1, EmptyMap).ix
  /\ procs = <<>>
  /\ totalImported = 0
  /\ totalErrors = 0
  /\ devFailed = FALSE

InitImport ==
  /\ input \in ReportFiles
  /\ batchSize \in 1..MaxDeviceBatch
  /\ extFile \in SeqsUpTo(ExtEntries, MaxExt)
  /\ platFile \in PlatFiles
  /\ summary = [scrape_date |-> "2025-01-01", total_extensions |-> Len(extFile),
                total_reports |-> 1000]
  /\ run = 1
  /\ extensions = {}
  /\ extensionCoverage = {}
  /\ devices = {}
  /\ deviceExtensions = {}
  /\ deviceLimits = {}
  /\ scrapeMeta = <<>>
  /\ extSeq = 1
  /\ devSeq = 1
  /\ covSeq = 1
  /\ failures = 0
  /\ snap = <<>>
  /\ ScriptStart
  /\ RunnerIdle
  /\ ChunkIdle

\* main is inside importExtensions, awaiting statement stmtIx of loop ph
Awaiting(ph) == Alive /\ mainPc = ph

\* the values of the statement main awaits
Statement == RefStatements(mainPc, extensionMap)[stmtIx]

\* a mutant of MainFails: the catch block logs the error and main returns
MainFailsQuietly ==
  /\ process' = "exit0"
  /\ mainPc' = "failed"

\* catch (error) { process.exit(1) } of main
MainFails ==
  /\ process' = "exit1"
  /\ mainPc' = "failed"

\* await db.insert(schema.extensions)...returning(..) and the loop over results
ExtensionsUpsert ==
  /\ Awaiting("extensions")
  /\ IF AffectsRowTwice(Statement)
     THEN /\ MainFails
          /\ UNCHANGED <<stmtIx, extensionMap, extensions, extSeq>>
     ELSE LET res == UpsertExtensions(extensions, Statement, extSeq)
              map == SetAll(extensionMap, res.returned)
              nxt == Advance("extensions", stmtIx, map)
          IN /\ extensions' = res.table
             /\ extSeq' = res.seq
             /\ extensionMap' = map
             /\ mainPc' = nxt.pc
             /\ stmtIx' = nxt.ix
             /\ UNCHANGED process
  /\ UNCHANGED <<run, extFile, platFile, summary, extensionCoverage, devices,
                 deviceExtensions, deviceLimits, scrapeMeta, devSeq, covSeq,
                 procs, totalImported, totalErrors, failures, devFailed, snap>>
  /\ UNCHANGED <<runnerVars, chunkVars>>
  /\ UNCHANGED <<input, batchSize, pos, batch, totalProcessed, batchCount,
                 promises, calls, paused, pauseGroup, ended, outcome, value,
                 progress, streamState>>

\* await db.insert(schema.extensionCoverage).values(batch).onConflictDoNothing()
\* of either coverage loop
CoverageInsert(ph) ==
  /\ Awaiting(ph)
  /\ LET res == InsertCoverage(extensionCoverage, Statement, covSeq)
         nxt == Advance(ph, stmtIx, extensionMap)
     IN /\ extensionCoverage' = res.table
        /\ covSeq' = res.seq
        /\ mainPc' = nxt.pc
        /\ stmtIx' = nxt.ix
  /\ UNCHANGED <<run, extFile, platFile, summary, extensionMap, extensions,
                 devices, deviceExtensions, deviceLimits, scrapeMeta, extSeq,
                 devSeq, procs, totalImported, totalErrors, failures,
                 devFailed, snap>>
  /\ UNCHANGED <<runnerVars, chunkVars>>
  /\ UNCHANGED streamVars

CoverageAllInsert == CoverageInsert("coverageAll")

CoveragePlatformInsert == CoverageInsert("coveragePlatform")

\* await db.insert(schema.scrapeMeta).values({...}); return extensionMap
ScrapeMetaInsert ==
  /\ Awaiting("scrapeMeta")
  /\ scrapeMeta' = InsertScrapeMeta(scrapeMeta, Statement)
  /\ mainPc' = Advance("scrapeMeta", stmtIx, extensionMap).pc
  /\ stmtIx' = Advance("scrapeMeta", stmtIx, extensionMap).ix
  /\ UNCHANGED <<run, extFile, platFile, summary, extensionMap, extensions,
                 extensionCoverage, devices, deviceExtensions, deviceLimits,
                 extSeq, devSeq, covSeq, procs, totalImported, totalErrors,
                 failures, devFailed, snap>>
  /\ UNCHANGED <<runnerVars, chunkVars>>
  /\ UNCHANGED streamVars

\* a statement of importExtensions fails: nothing catches it before main
ReferenceStatementFails ==
  /\ Alive
  /\ mainPc \in Range(Phases)
  /\ failures < MaxFailures
  /\ failures' = failures + 1
  /\ MainFails
  /\ UNCHANGED <<run, stmtIx, extFile, platFile, summary, extensionMap,
                 extensions, extensionCoverage, devices, deviceExtensions,
                 deviceLimits, scrapeMeta, extSeq, devSeq, covSeq, procs,
                 totalImported, totalErrors, devFailed, snap>>
  /\ UNCHANGED <<runnerVars, chunkVars>>
  /\ UNCHANGED <<input, batchSize, pos, batch, totalProcessed, batchCount,
                 promises, calls, paused, pauseGroup, ended, outcome, value,
                 progress, streamState>>

\* the locals of the invocations, after an event that may have started one
ProcsAfter ==
  IF Len(calls') > Len(calls)
  THEN Append(procs, StartBatch(calls'[Len(calls')].items, extensionMap))
  ELSE procs

\* totalErrors, after an event that may have started an invocation
ErrorsAfter ==
  IF Len(calls') > Len(calls)
  THEN totalErrors + TransformErrors(calls'[Len(calls')].items)
  ELSE totalErrors

\* 'data' during importDevices: processor is processBatch
ImportData ==
  /\ mainPc = "devices"
  /\ OnData(TRUE)
  /\ procs' = ProcsAfter
  /\ totalErrors' = ErrorsAfter
  /\ UNCHANGED <<run, mainPc, stmtIx, extFile, platFile, summary, extensionMap,
                 extensions, extensionCoverage, devices, deviceExtensions,
                 deviceLimits, scrapeMeta, extSeq, devSeq, covSeq,
                 totalImported, failures, devFailed, snap>>
  /\ UNCHANGED <<runnerVars, chunkVars>>

\* 'end' during importDevices
ImportEnd ==
  /\ mainPc = "devices"
  /\ OnEnd(TRUE)
  /\ procs' = ProcsAfter
  /\ totalErrors' = ErrorsAfter
  /\ UNCHANGED <<run, mainPc, stmtIx, extFile, platFile, summary, extensionMap,
                 extensions, extensionCoverage, devices, deviceExtensions,
                 deviceLimits, scrapeMeta, extSeq, devSeq, covSeq,
                 totalImported, failures, devFailed, snap>>
  /\ UNCHANGED <<runnerVars, chunkVars>>

\* 'error' during importDevices: an error of the last stage rejects the
\* promise main awaits through importDevices, and catch (error) {
\* process.exit(1) } runs; an error of an earlier stage is uncaught
ImportStreamError ==
  /\ mainPc = "devices"
  /\ failures < MaxFailures
  /\ failures' = failures + 1
  /\ OnError("exit1")
  /\ mainPc' = IF outcome' = "rejected" THEN "failed" ELSE mainPc
  /\ UNCHANGED <<run, stmtIx, extFile, platFile, summary, extensionMap,
                 extensions, extensionCoverage, devices, deviceExtensions,
                 deviceLimits, scrapeMeta, extSeq, devSeq, covSeq, procs,
                 totalImported, totalErrors, devFailed, snap>>
  /\ UNCHANGED <<runnerVars, chunkVars>>

\* a mutant of Proceed: no catch block around the statements, so an
\* invocation whose statement failed throws and its promise rejects
ProceedUncaught(i, p, nxt) ==
  /\ procs' = [procs EXCEPT ![i] =
                 [p EXCEPT !.pc = IF p.caught # procs[i].caught THEN "done" ELSE nxt.pc,
                           !.ix = nxt.ix]]
  /\ calls' = IF p.caught # procs[i].caught
              THEN [calls EXCEPT ![i].st = "rejected"]
              ELSE IF nxt.pc = "done"
                   THEN [calls EXCEPT ![i].st = "resolved"]
                   ELSE calls

\* invocation i moves to its next statement, or returns: its promise fulfils
Proceed(i, p, nxt) ==
  /\ procs' = [procs EXCEPT ![i] = [p EXCEPT !.pc = nxt.pc, !.ix = nxt.ix]]
  /\ calls' = IF nxt.pc = "done"
              THEN [calls EXCEPT ![i].st = "resolved"]
              ELSE calls

\* the invocations awaiting a statement on the given table
AwaitingIn(st) == {i \in 1..Len(procs) : calls[i].st = "pending" /\ procs[i].pc = st}

\* a mutant of ImportedAfter: the count of the batch replaces the total
ImportedAfterLost(n, results) == Len(results)

\* totalImported += deviceResults.length
ImportedAfter(n, results) == n + Len(results)

\* await db.insert(schema.devices)...returning(..), the loop over the results
\* and totalImported += deviceResults.length
DevicesInsert ==
  /\ Alive
  /\ \E i \in AwaitingIn("devices") :
       LET res == InsertDevices(devices, procs[i].deviceValues, devSeq)
           p == [procs[i] EXCEPT
                   !.deviceResults = res.returned,
                   !.inserted = {d.id : d \in res.table \ devices},
                   !.deviceIdMap = SetDeviceIds(procs[i].deviceIdMap, res.returned)]
       IN /\ devices' = res.table
          /\ devSeq' = res.seq
          /\ totalImported' = ImportedAfter(totalImported, res.returned)
          /\ Proceed(i, p, FirstRelated(p, 1))
  /\ UNCHANGED <<run, mainPc, stmtIx, extFile, platFile, summary, extensionMap,
                 extensions, extensionCoverage, deviceExtensions, deviceLimits,
                 scrapeMeta, extSeq, covSeq, totalErrors, failures, devFailed,
                 snap>>
  /\ UNCHANGED <<runnerVars, chunkVars>>
  /\ UNCHANGED <<input, batchSize, pos, batch, totalProcessed, batchCount,
                 promises, paused, pauseGroup, ended, outcome, value, progress,
                 streamState, process>>

\* the catch block of the statement invocation p awaits has run
Caught(p) == [p EXCEPT !.caught = Append(p.caught, p.pc)]

\* a mutant of ErrorsAfterFailure: the failed statement counts as one error
ErrorsAfterFailureOne(n, p) == n + 1

\* totalErrors += deviceValues.length
ErrorsAfterFailure(n, p) == n + Len(p.deviceValues)

\* the devices insert fails as a statement: catch, totalErrors +=
\* deviceValues.length, return
DevicesInsertFails ==
  /\ Alive
  /\ failures < MaxFailures
  /\ \E i \in AwaitingIn("devices") :
       /\ totalErrors' = ErrorsAfterFailure(totalErrors, procs[i])
       /\ Proceed(i, Caught(procs[i]), [pc |-> "done", ix |-> 0])
  /\ failures' = failures + 1
  /\ devFailed' = TRUE
  /\ UNCHANGED <<run, mainPc, stmtIx, extFile, platFile, summary, extensionMap,
                 extensions, extensionCoverage, devices, deviceExtensions,
                 deviceLimits, scrapeMeta, extSeq, devSeq, covSeq,
                 totalImported, snap>>
  /\ UNCHANGED <<runnerVars, chunkVars>>
  /\ UNCHANGED <<input, batchSize, pos, batch, totalProcessed, batchCount,
                 promises, paused, pauseGroup, ended, outcome, value, progress,
                 streamState, process>>

\* await db.insert(schema.deviceExtensions).values(extBatch).onConflictDoNothing()
DeviceExtensionsInsert ==
  /\ Alive
  /\ \E i \in AwaitingIn("deviceExtensions") :
       /\ deviceExtensions' =
            InsertDeviceExtensions(deviceExtensions,
              RelatedStatements(procs[i], 1)[procs[i].ix])
       /\ Proceed(i, procs[i], AdvanceRelated(procs[i]))
  /\ UNCHANGED <<run, mainPc, stmtIx, extFile, platFile, summary, extensionMap,
                 extensions, extensionCoverage, devices, deviceLimits,
                 scrapeMeta, extSeq, devSeq, covSeq, totalImported,
                 totalErrors, failures, devFailed, snap>>
  /\ UNCHANGED <<runnerVars, chunkVars>>
  /\ UNCHANGED <<input, batchSize, pos, batch, totalProcessed, batchCount,
                 promises, paused, pauseGroup, ended, outcome, value, progress,
                 streamState, process>>

\* await db.insert(schema.deviceLimits).values(limitsBatch).onConflictDoNothing()
DeviceLimitsInsert ==
  /\ Alive
  /\ \E i \in AwaitingIn("deviceLimits") :
       /\ deviceLimits' =
            InsertDeviceLimits(deviceLimits,
              RelatedStatements(procs[i], 2)[procs[i].ix])
       /\ Proceed(i, procs[i], AdvanceRelated(procs[i]))
  /\ UNCHANGED <<run, mainPc, stmtIx, extFile, platFile, summary, extensionMap,
                 extensions, extensionCoverage, devices, deviceExtensions,
                 scrapeMeta, extSeq, devSeq, covSeq, totalImported,
                 totalErrors, failures, devFailed, snap>>
  /\ UNCHANGED <<runnerVars, chunkVars>>
  /\ UNCHANGED <<input, batchSize, pos, batch, totalProcessed, batchCount,
                 promises, paused, pauseGroup, ended, outcome, value, progress,
                 streamState, process>>

\* a statement of insertRelated fails: catch (e) { /* skip */ }
RelatedInsertFails ==
  /\ Alive
  /\ failures < MaxFailures
  /\ \E i \in AwaitingIn("deviceExtensions") \cup AwaitingIn("deviceLimits") :
       Proceed(i, Caught(procs[i]), AdvanceRelated(procs[i]))
  /\ failures' = failures + 1
  /\ UNCHANGED <<run, mainPc, stmtIx, extFile, platFile, summary, extensionMap,
                 extensions, extensionCoverage, devices, deviceExtensions,
                 deviceLimits, scrapeMeta, extSeq, devSeq, covSeq,
                 totalImported, totalErrors, devFailed, snap>>
  /\ UNCHANGED <<runnerVars, chunkVars>>
  /\ UNCHANGED <<input, batchSize, pos, batch, totalProcessed, batchCount,
                 promises, paused, pauseGroup, ended, outcome, value, progress,
                 streamState, process>>

\* what the first run left: the row counts of the three tables the reference
\* and device inserts fill, and the rows of the dependent tables
RowCounts ==
  [extensions |-> Cardinality(extensions),
   extensionCoverage |-> Cardinality(extensionCoverage),
   devices |-> Cardinality(devices),
   deviceExtensions |-> deviceExtensions,
   deviceLimits |-> deviceLimits,
   devFailed |-> devFailed]

\* await streamJsonArray(...) returned: importDevices and main return and the
\* script ends with status 0
ImportCompletes ==
  /\ Alive
  /\ mainPc = "devices"
  /\ outcome = "resolved"
  /\ process' = "exit0"
  /\ mainPc' = "complete"
  /\ snap' = IF run = 1 THEN RowCounts ELSE snap
  /\ UNCHANGED <<run, stmtIx, extFile, platFile, summary, extensionMap,
                 extensions, extensionCoverage, devices, deviceExtensions,
                 deviceLimits, scrapeMeta, extSeq, devSeq, covSeq, procs,
                 totalImported, totalErrors, failures, devFailed>>
  /\ UNCHANGED <<runnerVars, chunkVars>>
  /\ UNCHANGED <<input, batchSize, pos, batch, totalProcessed, batchCount,
                 promises, calls, paused, pauseGroup, ended, outcome, value,
                 progress, streamState>>

\* the script is started again on the database the last run left: device_
\* reports.json and extensions_by_platform.json are the same files
Rerun ==
  /\ process = "exit0"
  /\ run < MaxRuns
  /\ run' = run + 1
  /\ pos' = 0
  /\ batch' = <<>>
  /\ totalProcessed' = 0
  /\ batchCount' = 0
  /\ promises' = <<>>
  /\ calls' = <<>>
  /\ paused' = FALSE
  /\ pauseGroup' = <<>>
  /\ ended' = "no"
  /\ outcome' = "pending"
  /\ value' = 0
  /\ progress' = <<>>
  /\ streamState' = "open"
  /\ process' = "running"
  /\ extensionMap' = EmptyMap
  /\ procs' = <<>>
  /\ totalImported' = 0
  /\ totalErrors' = 0
  /\ devFailed' = FALSE
  /\ UNCHANGED <<input, batchSize, extensions,
                 extensionCoverage, devices, deviceExtensions, deviceLimits,
                 scrapeMeta, extSeq, devSeq, covSeq, failures, snap>>
  /\ UNCHANGED <<runnerVars, chunkVars>>

\* the script is run again, against the same files and the same database
RunAgain ==
  /\ Rerun
  /\ mainPc' = FirstFrom(1, EmptyMap).pc
  /\ stmtIx' = FirstFrom(1, EmptyMap).ix
  /\ UNCHANGED <<extFile, platFile, summary>>

NextImport ==
  \/ ExtensionsUpsert
  \/ CoverageAllInsert
  \/ CoveragePlatformInsert
  \/ ScrapeMetaInsert
  \/ ReferenceStatementFails
  \/ ImportData
  \/ ImportEnd
  \/ ImportStreamError
  \/ PauseGroupResolved
  \/ EndResolved
  \/ DevicesInsert
  \/ DevicesInsertFails
  \/ DeviceExtensionsInsert
  \/ DeviceLimitsInsert
  \/ RelatedInsertFails
  \/ ImportCompletes
  \/ RunAgain

SpecImport == InitImport /\ [][NextImport]_vars

\* ------------- specification: the script on malformed reports and rescrapes
\* most reports of a device_reports.json with malformed reports; with fewer
\* than CONCURRENCY + 1 batches the stream is never paused
MaxBatchReports == 2
\* largest report id of such a file
MaxBatchRid == 2

\* the device_reports.json files tried: every report has one of the shapes
MalformedFiles ==
  {[i \in 1..Len(f) |->
      [rid |-> f[i][1], src |-> i,
       exts |-> <<[extensionName |-> "A", specVersion |-> 1],
                  [extensionName |-> "Z", specVersion |-> 2]>>,
       shape |-> f[i][2]]] :
     f \in SeqsUpTo((0..MaxBatchRid) \X Shapes, MaxBatchReports)}

\* the entry of an extension in the next scrape: another date, a features
\* page and no properties page
Rescraped(e) ==
  [name |-> e.name, coverage |-> e.coverage, features_url |-> "x",
   properties_url |-> "null", date |-> "2021-06-01"]

\* extensions.json of the next scrape: the extensions already listed, with
\* their new entries, and an extension that was not listed before
NextScrape(f) ==
  [i \in 1..Len(f) |-> Rescraped(f[i])]
  \o <<[name |-> "C", coverage |-> "<span>95.0</span>", features_url |-> "null",
        properties_url |-> "x", date |-> "2021-06-01"]>>

InitBatch ==
  /\ input \in MalformedFiles
  /\ batchSize \in 1..MaxDeviceBatch
  /\ extFile \in SeqsUpTo(ExtEntries, MaxExt)
  /\ platFile \in PlatFiles
  /\ platFile # EmptyMap
  /\ summary = [scrape_date |-> "2025-01-01", total_extensions |-> Len(extFile),
                total_reports |-> 1000]
  /\ run = 1
  /\ extensions = {}
  /\ extensionCoverage = {}
  /\ devices = {}
  /\ deviceExtensions = {}
  /\ deviceLimits = {}
  /\ scrapeMeta = <<>>
  /\ extSeq = 1
  /\ devSeq = 1
  /\ covSeq = 1
  /\ failures = 0
  /\ snap = <<>>
  /\ ScriptStart
  /\ RunnerIdle
  /\ ChunkIdle

\* the script is run again after the next scrape: extensions.json and
\* summary.json are new, and extensions.json is not empty, so that main
\* awaits the first upsert
RunOnNextScrape ==
  /\ Rerun
  /\ mainPc' = "extensions"
  /\ stmtIx' = 1
  /\ extFile' = NextScrape(extFile)
  /\ summary' = [scrape_date |-> "2025-02-01",
                 total_extensions |-> Len(extFile'),
                 total_reports |-> 1000]
  /\ UNCHANGED platFile

NextBatch ==
  \/ ExtensionsUpsert
  \/ CoverageAllInsert
  \/ CoveragePlatformInsert
  \/ ScrapeMetaInsert
  \/ ReferenceStatementFails
  \/ ImportData
  \/ ImportEnd
  \/ ImportStreamError
  \/ EndResolved
  \/ DevicesInsert
  \/ DevicesInsertFails
  \/ DeviceExtensionsInsert
  \/ DeviceLimitsInsert
  \/ RelatedInsertFails
  \/ ImportCompletes
  \/ RunOnNextScrape

SpecBatch == InitBatch /\ [][NextBatch]_vars

\* a processor that always resolves, a readable well-formed file: the event
\* loop runs every callback that is ready
NextLive ==
  \/ StreamData
  \/ StreamEnd
  \/ PauseGroupResolved
  \/ EndResolved
  \/ ProcessorResolves

LiveSpec == InitStream /\ [][NextLive]_vars /\ WF_vars(NextLive)

\* ------------------------------------------------- claims: streamJsonArray
\* the batches handed to the processor so far, in dispatch order
Dispatched == [i \in 1..Len(calls) |-> calls[i].items]

\* C1: the number of processor invocations started and not yet resolved
\* never exceeds CONCURRENCY.
C1_AtMostConcurrencyInFlight == Cardinality(InFlight) <= CONCURRENCY

\* C2: when streamJsonArray resolves, the count it resolves with is the
\* number of elements of the array, multiple of the batch size or not.
C2_ResolvesWithN == outcome = "resolved" => value = Len(input)

C2_Witness ==
  /\ outcome = "resolved"
  /\ Len(input) > batchSize
  /\ Len(input) % batchSize # 0

\* C3: the dispatched batches, in order, followed by the batch being
\* accumulated, are exactly the elements emitted so far, in source order
\* (so no element is in two batches or in none); once the 'end' handler has
\* run the dispatched batches are the whole array; no batch is empty, every
\* batch but the last has exactly batchSize elements, the last at most that.
C3_ExactlyOnceInOrder ==
  /\ ended = "no" => Concat(Dispatched) \o batch = SubSeq(input, 1, pos)
  /\ ended # "no" => Concat(Dispatched) = input
  /\ \A i \in 1..Len(calls) :
       /\ Len(calls[i].items) > 0
       /\ Len(calls[i].items) <= batchSize
       /\ i < Len(calls) => Len(calls[i].items) = batchSize

C3_Witness ==
  /\ ended = "done"
  /\ Len(calls) >= 2
  /\ Len(calls[Len(calls)].items) < batchSize

\* C4: streamJsonArray resolves only after the final partial batch has been
\* handed to the processor and every invocation started during the stream,
\* those spliced out of promises during a pause included, has resolved.
C4_ResolvesAfterAll ==
  outcome = "resolved" =>
    /\ Concat(Dispatched) = input
    /\ \A i \in 1..Len(calls) : calls[i].st = "resolved"

C4_Witness ==
  /\ outcome = "resolved"
  /\ Len(calls) > CONCURRENCY
  /\ Len(input) % batchSize # 0

\* C5: if a processor invocation rejects, the promise streamJsonArray returns
\* rejects: when the script is still running on an intact read pipeline and
\* nothing more can happen, a rejected invocation means a rejected promise.
C5_RejectionSurfaces ==
  (/\ streamState = "open"
   /\ process = "running"
   /\ ~ENABLED NextStream
   /\ \E i \in 1..Len(calls) : calls[i].st = "rejected")
  => outcome = "rejected"

\* C6: an error raised at any stage of the read pipeline rejects the promise
\* streamJsonArray returns.
C6_StreamErrorRejects == streamState # "open" => outcome = "rejected"

\* C7: a paused stream is eventually resumed, and streamJsonArray eventually
\* completes, when every processor invocation eventually resolves.
C7_PauseLeadsToCompletion ==
  /\ paused ~> ~paused
  /\ <>(outcome = "resolved")

C7_Witness ==
  /\ outcome = "resolved"
  /\ Len(calls) > 2 * CONCURRENCY

\* C8: the batch count reported at completion is the number of batches
\* dispatched to the processor.
C8_ReportedBatchCount ==
  ended = "done" => progress = <<totalProcessed, Len(calls)>>

\* ---------------------------------------------------- claims: the script
\* the report ids of device_reports.json
InputReportIds == {input[i].rid : i \in 1..Len(input)}

\* C9: the devices table never holds two rows with one report id, and when
\* the script has completed without any failure it holds exactly one row for
\* each distinct report id of the file, wherever the duplicates sit (one
\* batch, concurrent batches, an earlier run).
C9_OneRowPerReportId ==
  /\ \A d1, d2 \in devices : d1.reportId = d2.reportId => d1 = d2
  /\ (process = "exit0" /\ failures = 0) =>
       /\ {d.reportId : d \in devices} = InputReportIds
       /\ Cardinality(devices) = Cardinality(InputReportIds)

C9_Witness ==
  /\ run = 2
  /\ process = "exit0"
  /\ failures = 0
  /\ batchSize = 2
  /\ Len(input) = 4
  /\ input[1].rid = input[2].rid
  /\ input[1].rid = input[3].rid
  /\ input[4].rid # input[1].rid

\* the row counts of extensions, extension_coverage and devices are those the
\* first run left
SameCountsAsFirstRun ==
  /\ Cardinality(extensions) = snap.extensions
  /\ Cardinality(extensionCoverage) = snap.extensionCoverage
  /\ Cardinality(devices) = snap.devices

C11_ExistingRowUnchanged == [][\A d \in devices : d \in devices']_vars

C11_Witness ==
  /\ run = 2
  /\ process = "exit0"
  /\ totalImported = 0
  /\ \E d \in devices : \E i \in 1..Len(input) :
       /\ input[i].rid = d.reportId
       /\ input[i].shape = "ok"
       /\ input[i].src # d.src

\* importExtensions is past its upsert loop, and no statement of it has failed
PastUpsert ==
  mainPc \in {"coverageAll", "coveragePlatform", "scrapeMeta", "devices",
              "complete"}

\* the row of extensions with this name carries the values derived from the
\* entry of extensions.json
CarriesInput(v) ==
  \E e \in extensions :
    /\ e.name = v.name
    /\ e.dateAdded = v.dateAdded
    /\ e.hasFeatures = v.hasFeatures
    /\ e.hasProperties = v.hasProperties

\* C12: after the upsert, the row of every name of extensions.json, a name
\* the table already held included, has the date-added, has-features and
\* has-properties derived from the new entry, not those stored before.
C12_UpsertOverwrites ==
  PastUpsert => \A i \in 1..Len(extensionValues) : CarriesInput(extensionValues[i])

\* C13: after the upsert step, every name of extensions.json, whether its row
\* was inserted by this run or was there before, is in the name->id map, and
\* is mapped to the id of the extensions row that carries the name.
C13_MapCoversEveryName ==
  PastUpsert =>
    \A i \in 1..Len(extFile) :
      /\ MapHas(extensionMap, extFile[i].name)
      /\ \E e \in extensions :
           e.name = extFile[i].name /\ e.id = extensionMap[extFile[i].name]

C13_Witness ==
  /\ run = 2
  /\ PastUpsert
  /\ \E i, j \in 1..Len(extFile) :
       /\ extFile[i].name = "C"
       /\ extFile[j].name # "C"
       /\ extensionMap[extFile[j].name] < extensionMap["C"]

\* importDevices has been entered: the stream has delivered something, or a
\* batch has been handed to processBatch
DeviceImportEntered ==
  pos > 0 \/ ended # "no" \/ calls # <<>> \/ procs # <<>>

\* the Reference Importer has done every step of this run: each name of
\* extensions.json is in the map and has its 'all' coverage row, and the
\* ScrapeMeta row of this run is inserted
ReferenceDone ==
  /\ mainPc \notin Range(Phases)
  /\ Len(scrapeMeta) = run
  /\ \A i \in 1..Len(extFile) :
       /\ MapHas(extensionMap, extFile[i].name)
       /\ \E c \in extensionCoverage :
            /\ c.extensionId = extensionMap[extFile[i].name]
            /\ c.platform = "all"

\* C14: no batch is processed and no devices insert is issued before the
\* Reference Importer has finished all its steps and returned the map, and
\* the map is not modified while the devices are imported.
C14_ReferenceBeforeDevices ==
  /\ [](DeviceImportEntered => ReferenceDone)
  /\ [][/\ (devices' # devices \/ devSeq' # devSeq) => ReferenceDone
        /\ mainPc = "devices" => extensionMap' = extensionMap]_vars

C14_Witness ==
  /\ mainPc = "devices"
  /\ Len(calls) = 2
  /\ devices # {}
  /\ Cardinality(DOMAIN extensionMap) = 2
  /\ Cardinality(extensionCoverage) >= 3

\* the exit status of the process, -1 while it runs: an uncaught exception
\* ends a Node.js process with status 1, as process.exit(1) does
ExitStatus ==
  CASE process = "exit0" -> 0
    [] process \in {"exit1", "crashed"} -> 1
    [] OTHER -> -1

\* C15: a failed statement of the Reference Importer ends the process with
\* status 1 before the Device Importer is entered; a failed device import
\* (the read pipeline raised an error) ends it with status 1; status 0 is
\* reached only when both phases have completed.
C15_FailurePolicy ==
  /\ (mainPc = "failed" /\ streamState = "open") =>
       ExitStatus = 1 /\ ~DeviceImportEntered
  /\ (mainPc = "failed" \/ streamState # "open") => ExitStatus = 1
  /\ ExitStatus = 0 =>
       /\ mainPc = "complete"
       /\ ReferenceDone
       /\ outcome = "resolved"
       /\ Concat(Dispatched) = input
       /\ \A i \in 1..Len(calls) : calls[i].st = "resolved"

C15_Witness ==
  /\ mainPc = "failed"
  /\ streamState = "open"
  /\ process = "exit1"
  /\ run = 2
  /\ Cardinality(extensions) = 3
  /\ devices # {}

\* the rows invocation i staged in deviceValues or deviceLimitsValues for the
\* report at place src of the file
StagedFor(i, src) ==
  {v \in Range(procs[i].deviceValues) \cup Range(procs[i].deviceLimitsValues) :
     v.src = src}

\* the errors the transformation loops of the invocations have counted
RECURSIVE CountedErrors(_)
CountedErrors(cs) ==
  IF cs = <<>> THEN 0
  ELSE TransformErrors(Head(cs).items) + CountedErrors(Tail(cs))

\* C16: a report whose transformation throws is skipped: it has no row in
\* the row sets of its batch and no devices row, it adds exactly one to the
\* error count, and the other reports of the batch are staged all the same.
C16_FaultyReportSkipped ==
  /\ \A i \in 1..Len(procs) : \A k \in 1..Len(calls[i].items) :
       LET report == calls[i].items[k] IN
       IF Throws(report)
       THEN StagedFor(i, report.src) = {}
       ELSE \E v \in Range(procs[i].deviceValues) : v.src = report.src
  /\ \A k \in 1..Len(input) :
       Throws(input[k]) => \A d \in devices : d.src # k
  /\ failures = 0 => totalErrors = CountedErrors(calls)

\* the catch block of the devices insert of this invocation has run
DevicesCaught(p) == "devices" \in Range(p.caught)

\* C17: when the devices insert of a batch fails as a statement, no dependent
\* row of the batch is inserted, the error count grows by the number of device
\* rows of the batch, the invocation resolves, the statement is not issued
\* again, and the other invocations are left as they were.
C17_DevicesFailureAbandonsBatch ==
  /\ [](\A i \in 1..Len(procs) :
          DevicesCaught(procs[i]) =>
            /\ procs[i].pc = "done"
            /\ procs[i].caught = <<"devices">>
            /\ procs[i].deviceIdMap = EmptyMap
            /\ calls[i].st = "resolved")
  /\ [][\A i \in 1..Len(procs) :
          (/\ i <= Len(procs')
           /\ ~DevicesCaught(procs[i])
           /\ DevicesCaught(procs'[i])) =>
            /\ totalErrors' = totalErrors + Len(procs[i].deviceValues)
            /\ UNCHANGED <<devices, deviceExtensions, deviceLimits,
                           totalImported, process, outcome>>
            /\ \A j \in 1..Len(procs) \ {i} :
                 procs'[j] = procs[j] /\ calls'[j] = calls[j]]_vars

C17_Witness ==
  /\ process = "exit0"
  /\ \E i, j \in 1..Len(procs) :
       /\ DevicesCaught(procs[i])
       /\ procs[j].deviceResults # <<>>
       /\ \E x \in deviceLimits : x.deviceId = procs[j].deviceResults[1].id

\* C18: for every devices row the insert of a batch returned, the batch-local
\* map takes the row's report id, 0 included, to the row's id, so that once
\* the batch is done without a caught failure the limits row staged for the
\* report is in device_limits under that id.
C18_MapHoldsEveryInsertedRow ==
  \A i \in 1..Len(procs) : \A k \in 1..Len(procs[i].deviceResults) :
    LET p == procs[i]
        r == p.deviceResults[k]
    IN /\ MapHas(p.deviceIdMap, r.reportId)
       /\ p.deviceIdMap[r.reportId] = r.id
       /\ (/\ p.pc = "done"
           /\ p.caught = <<>>
           /\ \E v \in Range(p.deviceLimitsValues) : v.reportId = r.reportId)
          => \E x \in deviceLimits : x.deviceId = r.id

\* the invocations that take a step, as far as they existed before it
Stepping == {i \in 1..Len(procs) : i <= Len(procs') /\ procs'[i] # procs[i]}

\* C19: a batch inserts dependent rows only for the devices rows its own
\* insert added: for a report whose report id was already in the table (from
\* an earlier run, or from a batch processed concurrently) it inserts none,
\* also when the device that holds the report id has no dependent rows.
C19_DependentsOnlyForOwnDevices ==
  [][/\ \A x \in deviceExtensions' \ deviceExtensions :
          \E i \in Stepping : x.deviceId \in procs[i].inserted
     /\ \A x \in deviceLimits' \ deviceLimits :
          \E i \in Stepping : x.deviceId \in procs[i].inserted]_vars

C19_Witness ==
  /\ run = 2
  /\ process = "exit0"
  /\ totalImported = 0
  /\ \E d \in devices :
       /\ d.reportId # 0
       /\ \A x \in deviceLimits : x.deviceId # d.id
       /\ \A x \in deviceExtensions : x.deviceId # d.id
       /\ \E i \in 1..Len(procs) :
            /\ \E v \in Range(procs[i].deviceLimitsValues) : v.reportId = d.reportId
            /\ \E v \in Range(procs[i].deviceExtValues) : v.reportId = d.reportId

\* the devices of invocation p whose staged link rows are all missing from
\* device_extensions, and those whose limits row is missing from device_limits
LackingLinks(p) ==
  {v.deviceId : v \in {w \in Range(extValuesWithIds(p)) :
                         \A x \in deviceExtensions : x.deviceId # w.deviceId}}

LackingLimits(p) ==
  {v.deviceId : v \in {w \in Range(limitsWithIds(p)) :
                         \A x \in deviceLimits : x.deviceId # w.deviceId}}

\* C20: when one bulk insert into a dependent table fails, the failure is
\* caught and the invocation resolves, the sibling row set of the batch is
\* inserted in full, and in the table whose insert failed the rows of the
\* other devices of the batch are inserted: at most the one device whose rows
\* made the statement fail is left without them.
C20_DependentFailureIsolated ==
  \A i \in 1..Len(procs) :
    LET p == procs[i] IN
    (p.pc = "done" /\ Len(p.caught) = 1 /\ ~DevicesCaught(p)) =>
      /\ calls[i].st = "resolved"
      /\ p.caught = <<"deviceExtensions">> => LackingLimits(p) = {}
      /\ p.caught = <<"deviceLimits">> => LackingLinks(p) = {}
      /\ Cardinality(LackingLinks(p) \cup LackingLimits(p)) <= 1

\* the devices rows the inserts of the invocations returned, in all
RECURSIVE ReturnedRows(_)
ReturnedRows(ps) ==
  IF ps = <<>> THEN 0
  ELSE Len(Head(ps).deviceResults) + ReturnedRows(Tail(ps))

\* the devices rows the inserts of the invocations added to the table, in all
RECURSIVE AddedRows(_)
AddedRows(ps) ==
  IF ps = <<>> THEN 0
  ELSE Cardinality(Head(ps).inserted) + AddedRows(Tail(ps))

\* the errors the catch blocks of failed devices inserts have counted
RECURSIVE FailedInsertErrors(_)
FailedInsertErrors(ps) ==
  IF ps = <<>> THEN 0
  ELSE (IF DevicesCaught(Head(ps)) THEN Len(Head(ps).deviceValues) ELSE 0)
       + FailedInsertErrors(Tail(ps))

\* C21: the running totals lose no update, however the invocations in flight
\* interleave: the imported count is the number of devices rows the inserts
\* of the batches returned, which is the number of rows added during the run,
\* and the error count is the sum of the errors counted; at every moment, and
\* so when the device import finishes.
C21_TotalsLoseNoUpdate ==
  /\ totalImported = ReturnedRows(procs)
  /\ totalImported = AddedRows(procs)
  /\ totalErrors = CountedErrors(calls) + FailedInsertErrors(procs)

C21_Witness ==
  /\ process = "exit0"
  /\ Len(procs) = 2
  /\ totalImported = 1
  /\ totalErrors = 2
  /\ DevicesCaught(procs[1])
  /\ procs[2].deviceResults # <<>>

\* the link invocation i staged for entry e of the extensions of a report
LinkFor(i, rid, e) ==
  {v \in Range(procs[i].deviceExtValues) :
     v.reportId = rid /\ v.specVersion = e.specVersion}

\* C22: a link is staged for an entry of a report's extensions exactly when
\* the name of the entry is in the lookup map, and the link carries the id
\* the map holds for the name; an entry with an unknown name stages nothing
\* and is no error; every staged link comes from an entry of a report of the
\* batch.
C22_LinkIffNameKnown ==
  \A i \in 1..Len(procs) :
    /\ \A k \in 1..Len(calls[i].items) :
         LET report == calls[i].items[k] IN
         report.shape = "ok" =>
           \A e \in Range(report.exts) :
             IF e.extensionName \in DOMAIN extensionMap
             THEN /\ LinkFor(i, report.rid, e) # {}
                  /\ \A v \in LinkFor(i, report.rid, e) :
                       v.extensionId = extensionMap[e.extensionName]
             ELSE LinkFor(i, report.rid, e) = {}
    /\ \A v \in Range(procs[i].deviceExtValues) :
         \E k \in 1..Len(calls[i].items) :
           /\ calls[i].items[k].rid = v.reportId
           /\ calls[i].items[k].shape = "ok"
    /\ (\A k \in 1..Len(calls[i].items) : calls[i].items[k].shape = "ok")
         => TransformErrors(calls[i].items) = 0

C22_Witness ==
  /\ Len(procs) = 1
  /\ Len(procs[1].deviceExtValues) = 2
  /\ "A" \in DOMAIN extensionMap
  /\ "Z" \notin DOMAIN extensionMap
  /\ calls[1].items[1].rid # calls[1].items[2].rid

\* ------------------------------------- specification: processBatches by itself
\* largest concurrency argument of processBatches that is tried
MaxConcurrency == 3

\* const batches = chunk(items, batchSize); input holds the items argument
batches == chunk(input, batchSize)

\* concurrentBatches.map((batch, idx) => processor(batch, i + idx)) for the
\* wave whose first batch has (0-based) index w: the invocations started
WaveCalls(w) ==
  LET concurrentBatches == Slice(batches, w, w + concurrency) IN
  [k \in 1..Len(concurrentBatches) |->
     [items |-> concurrentBatches[k], st |-> "pending",
      batchIndex |-> w + k - 1]]

\* the promises handed to Promise.all for that wave, when n invocations have
\* been started before it
WavePromises(w, n) == [k \in 1..Len(WaveCalls(w)) |-> n + k]

\* a mutant of WaveResults: the values arrive in the opposite order
WaveResultsReversed(ps) == [k \in 1..Len(ps) |-> ps[Len(ps) + 1 - k]]

\* const batchResults = await Promise.all(ps): the values of the promises in
\* the order of ps, whatever the order they were fulfilled in; the value of
\* an invocation stands for its place in calls
WaveResults(ps) == ps

\* Math.min(100, Math.round(((i + concurrency) / batches.length) * 100))
WaveProgress(w) ==
  LET pct == RoundDiv((w + concurrency) * 100, Len(batches)) IN
  IF pct > 100 THEN 100 ELSE pct

\* a mutant of NextWave: the loop steps by one batch
NextWaveByOne(w, c) == w + 1

\* i += concurrency
NextWave(w, c) == w + c

\* a mutant of FirstError: the error of the latest rejection is kept
LatestError(v, i) == [error |-> i]

\* the reason the promise of processBatches is rejected with: Promise.all
\* rejects with the first rejection, later ones change nothing
FirstError(v, i) == IF outcome = "pending" THEN [error |-> i] ELSE v

\* processBatches(items, batchSize, concurrency, processor) up to its first
\* await: the first wave is started, or, without batches, results is returned
InitRunner ==
  /\ input \in {Iota(n) : n \in 0..MaxN}
  /\ batchSize \in 1..MaxBatch
  /\ concurrency \in 1..MaxConcurrency
  /\ wave = 0
  /\ runnerResults = <<>>
  /\ calls = WaveCalls(0)
  /\ promises = WavePromises(0, 0)
  /\ outcome = IF batches = <<>> THEN "resolved" ELSE "pending"
  /\ value = IF batches = <<>> THEN <<>> ELSE 0
  /\ pos = 0
  /\ batch = <<>>
  /\ totalProcessed = 0
  /\ batchCount = 0
  /\ paused = FALSE
  /\ pauseGroup = <<>>
  /\ ended = "no"
  /\ progress = <<>>
  /\ streamState = "open"
  /\ process = "running"
  /\ ImportIdle
  /\ ChunkIdle

\* await Promise.all(...) is fulfilled: results.push(...batchResults), the
\* progress line, i += concurrency, and either the next wave is started or
\* results is returned.  The result of an invocation stands for its index.
WaveJoin ==
  /\ Alive
  /\ outcome = "pending"
  /\ promises # <<>>
  /\ AllFulfilled(promises)
  /\ runnerResults' = runnerResults \o WaveResults(promises)
  /\ progress' = <<WaveProgress(wave)>>
  /\ wave' = NextWave(wave, concurrency)
  /\ IF wave' < Len(batches)
     THEN /\ calls' = calls \o WaveCalls(wave')
          /\ promises' = WavePromises(wave', Len(calls))
          /\ UNCHANGED <<outcome, value>>
     ELSE /\ promises' = <<>>
          /\ outcome' = "resolved"
          /\ value' = runnerResults'
          /\ UNCHANGED calls
  /\ UNCHANGED <<input, batchSize, pos, batch, totalProcessed, batchCount,
                 paused, pauseGroup, ended, streamState, process, concurrency>>
  /\ UNCHANGED <<importVars, chunkVars>>

\* the promise of invocation i rejects: Promise.all rejects, the await throws
\* and the promise of processBatches is rejected with the same reason, unless
\* it already is
WaveProcessorRejects ==
  /\ Alive
  /\ \E i \in InFlight :
       /\ calls' = [calls EXCEPT ![i].st = "rejected"]
       /\ outcome' = Settle("rejected")
       /\ value' = FirstError(value, i)
  /\ UNCHANGED <<input, batchSize, pos, batch, totalProcessed, batchCount,
                 promises, paused, pauseGroup, ended, progress, streamState,
                 process>>
  /\ UNCHANGED <<importVars, runnerVars, chunkVars>>

NextRunner ==
  \/ WaveJoin
  \/ ProcessorResolves
  \/ WaveProcessorRejects

SpecRunner == InitRunner /\ [][NextRunner]_vars

\* the (0-based) wave of the j-th invocation started
WaveOf(j) == (j - 1) \div concurrency

\* the number of invocations a wave starts: concurrency, or what is left
WaveSize(w) ==
  IF Len(batches) - w * concurrency < concurrency
  THEN Len(batches) - w * concurrency
  ELSE concurrency

\* C23: processBatches starts the batches in waves of `concurrency`
\* consecutive batches, in order (the last wave holds what is left), and no
\* batch of a later wave is started before every batch of the waves before it
\* has completed; the promise is fulfilled only after every batch completed.
C23_WavesWithBarrier ==
  /\ Len(calls) <= Len(batches)
  /\ \A j \in 1..Len(calls) : calls[j].items = batches[j]
  /\ \A j \in 1..Len(calls) :
       \A k \in 1..WaveSize(WaveOf(j)) :
         WaveOf(j) * concurrency + k <= Len(calls)
  /\ \A j \in 1..Len(calls) : \A k \in 1..Len(calls) :
       WaveOf(j) < WaveOf(k) => calls[j].st = "resolved"
  /\ outcome = "resolved" =>
       /\ Len(calls) = Len(batches)
       /\ \A j \in 1..Len(calls) : calls[j].st = "resolved"
       /\ value = Iota(Len(batches))

C23_Witness ==
  /\ Len(batches) = 7
  /\ concurrency = 3
  /\ outcome = "resolved"
  /\ Len(calls) = 7
  /\ wave = 9

\* the invocations whose promise has rejected
RejectedCalls == {j \in 1..Len(calls) : calls[j].st = "rejected"}

\* C24: once the processor of a batch rejects, processBatches is rejected: no
\* batch of a later wave is ever started, nothing more is added to results,
\* and the rejection reason is the error of the batch that rejected first and
\* stays that error whatever the other batches of the wave do.
C24_WaveFailureAborts ==
  /\ [](RejectedCalls # {} =>
          /\ outcome = "rejected"
          /\ value.error \in RejectedCalls
          /\ \A j \in RejectedCalls : WaveOf(j) = WaveOf(Len(calls))
          /\ Len(calls) = wave + WaveSize(WaveOf(Len(calls))))
  /\ [][RejectedCalls = {} /\ RejectedCalls' # {} =>
          RejectedCalls' = {value'.error}]_vars
  /\ [][RejectedCalls # {} =>
          /\ Len(calls') = Len(calls)
          /\ outcome' = outcome
          /\ value' = value
          /\ runnerResults' = runnerResults]_vars

C24_Witness ==
  /\ outcome = "rejected"
  /\ Len(batches) = 7
  /\ concurrency = 3
  /\ Len(calls) = 6
  /\ RejectedCalls = {4, 5}
  /\ value.error = 5
  /\ calls[6].st = "resolved"

\* C30: chunk(items, n) with n >= 1 splits items into consecutive groups:
\* concatenated in order they give items back, every group but the last has
\* exactly n elements, no group is empty, and no items give no group.
C30_ChunkPartitions ==
  LET groups == chunk(input, batchSize) IN
  /\ Concat(groups) = input
  /\ \A g \in 1..Len(groups) :
       /\ Len(groups[g]) >= 1
       /\ Len(groups[g]) <= batchSize
       /\ g < Len(groups) => Len(groups[g]) = batchSize
  /\ input = <<>> => groups = <<>>

C30_Witness ==
  /\ Len(input) = 7
  /\ batchSize = 3
  /\ chunk(input, batchSize) = <<<<1, 2, 3>>, <<4, 5, 6>>, <<7>>>>
  /\ Len(calls) = 3
  /\ calls[3].items = <<7>>

\* --------------------- specification: importExtensions on large reference files
\* most statements the upsert loop issues for an extensions.json that is tried
MaxExtBatches == 3

\* an extensions.json of n entries with names "1" .. "n", whose coverage
\* texts vary from entry to entry
LongFile(n) ==
  [i \in 1..n |->
     [name |-> ToString(i),
      coverage |-> CASE i % 3 = 1 -> "<span>95.0</span>"
                     [] i % 3 = 2 -> "<span>50.0</span>"
                     [] OTHER -> "null",
      features_url |-> "null", properties_url |-> "x", date |-> "2020-01-01"]]

\* the extensions.json files tried: the short ones, and long ones that fill
\* whole statements of INSERT_BATCH_SIZE rows or exceed them by one row
ReferenceFiles ==
  SeqsUpTo(ExtEntries, MaxExt)
  \cup {LongFile(INSERT_BATCH_SIZE * k + r) :
          k \in 1..(MaxExtBatches - 1), r \in {0, 1}}

\* the coverage text of an entry in a later scrape: the share has changed
Recounted(coverage) ==
  IF coverage = "<span>95.0</span>" THEN "<span>50.0</span>"
  ELSE "<span>95.0</span>"

\* extensions.json of a later scrape: every entry with another coverage
LaterScrape(f) ==
  [i \in 1..Len(f) |-> [Rescraped(f[i]) EXCEPT !.coverage = Recounted(@)]]

\* extensions_by_platform.json of a later scrape: the same platforms and
\* names, every entry with another coverage
LaterPlatforms(pf) ==
  [p \in DOMAIN pf |->
     [i \in 1..Len(pf[p]) |->
        [pf[p][i] EXCEPT !.coverage = Recounted(@)]]]

\* the script starts against an empty database, reference files as above and
\* a device_reports.json that holds the empty array
InitReference ==
  /\ input = <<>>
  /\ batchSize = 1
  /\ extFile \in ReferenceFiles
  /\ platFile \in PlatFiles
  /\ \E total \in {7, 1000} :
       summary = [scrape_date |-> "2025-01-01",
                  total_extensions |-> Len(extFile),
                  total_reports |-> total]
  /\ run = 1
  /\ extensions = {}
  /\ extensionCoverage = {}
  /\ devices = {}
  /\ deviceExtensions = {}
  /\ deviceLimits = {}
  /\ scrapeMeta = <<>>
  /\ extSeq = 1
  /\ devSeq = 1
  /\ covSeq = 1
  /\ failures = 0
  /\ snap = <<>>
  /\ ScriptStart
  /\ RunnerIdle
  /\ ChunkIdle

\* the script is run again after a later scrape, against the same database:
\* the three reference files carry other values
RunOnLaterScrape ==
  /\ Rerun
  /\ extFile' = LaterScrape(extFile)
  /\ platFile' = LaterPlatforms(platFile)
  /\ summary' = [scrape_date |-> "2025-02-01",
                 total_extensions |-> Len(extFile'),
                 total_reports |-> summary.total_reports + 1000]
  /\ mainPc' = IF extFile = <<>> THEN "scrapeMeta" ELSE "extensions"
  /\ stmtIx' = 1

NextReference ==
  \/ ExtensionsUpsert
  \/ CoverageAllInsert
  \/ CoveragePlatformInsert
  \/ ScrapeMetaInsert
  \/ ReferenceStatementFails
  \/ ImportEnd
  \/ EndResolved
  \/ ImportCompletes
  \/ RunAgain
  \/ RunOnLaterScrape

SpecReference == InitReference /\ [][NextReference]_vars

\* the statements of the upsert loop
UpsertBatches == chunk(extensionValues, INSERT_BATCH_SIZE)

\* the upsert statements that have been issued and have not settled: the loop
\* awaits statement stmtIx, the statements before it have settled and the
\* statements after it have not been issued
UpsertsInFlight == IF Awaiting("extensions") THEN {stmtIx} ELSE {}

\* the upsert statements in flight while statement ix has not settled, were
\* the statements issued in waves of CONCURRENCY with a join between waves
WaveAround(ix) ==
  LET start == ((ix - 1) \div CONCURRENCY) * CONCURRENCY IN
  {k \in (start + 1)..(start + CONCURRENCY) : k <= Len(UpsertBatches)}

\* C25: while the reference import upserts the extensions, the upsert batches
\* run in waves of up to CONCURRENCY batches in flight together, with a join
\* between the waves: every batch of the wave that has not settled is in
\* flight.
C25_UpsertsInWaves ==
  Awaiting("extensions") =>
    /\ stmtIx \in UpsertsInFlight
    /\ UpsertsInFlight \subseteq WaveAround(stmtIx)
    /\ \A k \in WaveAround(stmtIx) : k >= stmtIx => k \in UpsertsInFlight

\* the entries of extensions.json whose name the map holds, in file order
ListedInMap == {i \in 1..Len(extFile) : MapHas(extensionMap, extFile[i].name)}

\* d is x / 100 rounded to the nearest integer, halves upwards
IsRoundedPercentOf(d, x) == 2 * x - 100 < 200 * d /\ 200 * d <= 2 * x + 100

\* the row is the all-platform coverage row of this entry of extensions.json
IsAllRowOf(r, e) ==
  /\ r.extensionId = extensionMap[e.name]
  /\ r.platform = "all"
  /\ r.coveragePercent = parseCoverage(e.coverage)
  /\ r.totalDevices = summary.total_reports
  /\ IsRoundedPercentOf(r.deviceCount,
                        parseCoverage(e.coverage) * summary.total_reports)

\* the all-platform loop of the first run is over
AllCoverageDone ==
  run = 1 /\ mainPc \in {"coveragePlatform", "scrapeMeta", "devices", "complete"}

\* C26: the all-platform rows staged from extensions.json are one row per
\* entry whose name the map holds, with platform 'all', total_devices =
\* summary.total_reports and device_count = the coverage percent of
\* total_reports rounded to the nearest integer; an entry whose name the map
\* lacks has no row.  Against an empty table these are the all-platform rows
\* the first run inserts.
C26_AllPlatformRows ==
  LET staged == Range(allCoverageValues(extensionMap))
      stored == {r \in extensionCoverage : r.platform = "all"}
  IN
  /\ Len(allCoverageValues(extensionMap)) = Cardinality(ListedInMap)
  /\ \A i \in ListedInMap : \E r \in staged : IsAllRowOf(r, extFile[i])
  /\ \A r \in staged : \E i \in ListedInMap : IsAllRowOf(r, extFile[i])
  /\ AllCoverageDone =>
       /\ \A i \in 1..Len(extFile) : \E r \in stored : IsAllRowOf(r, extFile[i])
       /\ Cardinality(stored) = Len(extFile)

C26_Witness ==
  /\ AllCoverageDone
  /\ Len(extFile) = 101
  /\ summary.total_reports = 1000
  /\ \E r \in extensionCoverage :
       r.platform = "all" /\ r.coveragePercent = 95 /\ r.deviceCount = 950
         /\ r.totalDevices = 1000

\* no two rows of extension_coverage hold the same (extension, platform) pair
CoveragePairsUnique ==
  \A c \in extensionCoverage : \A d \in extensionCoverage :
    (c.extensionId = d.extensionId /\ c.platform = d.platform) => c = d

\* C27: extension_coverage is first-write-wins: a row, once inserted, keeps
\* its coverage percent, device count and total devices whatever a later
\* statement proposes for its (extension, platform) pair, and no second row
\* for the pair is ever added.
C27_CoverageFirstWriteWins ==
  /\ []CoveragePairsUnique
  /\ [][\A c \in extensionCoverage : c \in extensionCoverage']_vars

C27_Witness ==
  /\ run = 2
  /\ mainPc = "scrapeMeta"
  /\ Len(extFile) = 101
  /\ \E c \in extensionCoverage :
       /\ c.platform = "all"
       /\ c.extensionId = extensionMap[extFile[1].name]
       /\ c.coveragePercent = 95
       /\ parseCoverage(extFile[1].coverage) = 50
       /\ c.totalDevices = 1000
       /\ summary.total_reports = 2000
  /\ Cardinality({c \in extensionCoverage : c.platform = "all"}) = 101

\* the platforms the claim names
NamedPlatforms == {"windows", "linux", "android", "macos", "ios"}

\* the rows of extension_coverage of a single platform
PlatformRows == {c \in extensionCoverage : c.platform # "all"}

\* the row is the per-platform row of entry e of platform p of the file
IsPlatformRowOf(c, p, e) ==
  /\ c.platform = p
  /\ \E x \in extensions : x.name = e.name /\ x.id = c.extensionId
  /\ c.deviceCount = 0
  /\ c.totalDevices = 0
  /\ run = 1 => c.coveragePercent = parseCoverage(e.coverage)

\* the per-platform loop of the first run is over
PlatformCoverageDone ==
  run = 1 /\ mainPc \in {"scrapeMeta", "devices", "complete"}

\* C28: a per-platform coverage row exists only for windows, linux, android,
\* macos and ios, only for a platform the file has an entry for and only for
\* a listed name the map holds; it carries device_count 0 and total_devices 0.
\* Other keys of the file give no row, and once the loop is over every listed
\* name of a named platform that the map holds has its row.
C28_PerPlatformRows ==
  /\ \A c \in PlatformRows :
       /\ c.platform \in NamedPlatforms
       /\ c.platform \in DOMAIN platFile
       /\ \E i \in 1..Len(platFile[c.platform]) :
            IsPlatformRowOf(c, c.platform, platFile[c.platform][i])
  /\ \A c \in Range(Concat(PlatformStatements(1, extensionMap))) :
       /\ c.platform \in NamedPlatforms \cap DOMAIN platFile
       /\ c.deviceCount = 0
       /\ c.totalDevices = 0
       /\ \E n \in DOMAIN extensionMap : extensionMap[n] = c.extensionId
  /\ PlatformCoverageDone =>
       \A p \in NamedPlatforms \cap DOMAIN platFile :
         \A i \in 1..Len(platFile[p]) :
           MapHas(extensionMap, platFile[p][i].name) =>
             \E c \in PlatformRows : IsPlatformRowOf(c, p, platFile[p][i])

C28_Witness ==
  /\ PlatformCoverageDone
  /\ "web" \in DOMAIN platFile
  /\ MapHas(extensionMap, "A")
  /\ ~MapHas(extensionMap, "Z")
  /\ Cardinality(PlatformRows) = 1
  /\ \E c \in PlatformRows :
       /\ c.platform = "linux"
       /\ c.extensionId = extensionMap["A"]
       /\ c.coveragePercent = 50
       /\ c.deviceCount = 0
       /\ c.totalDevices = 0

\* importExtensions of the current run has returned
ReferenceReturned == mainPc \in {"devices", "complete"}

\* the scrape_meta row of the current summary.json
MetaRow ==
  [scrapeDate |-> summary.scrape_date,
   totalExtensions |-> summary.total_extensions,
   totalReports |-> summary.total_reports]

\* C29: a run of the reference importer that completes adds exactly one
\* scrape_meta row, that of its summary.json, as its last write to the
\* database; a run in which a statement fails adds none; rows are never
\* deduplicated, so that k completed runs leave k rows.
C29_OneMetaRowPerRun ==
  /\ [](Len(scrapeMeta) = (run - 1) + (IF ReferenceReturned THEN 1 ELSE 0))
  /\ [][scrapeMeta' # scrapeMeta =>
          /\ scrapeMeta' = Append(scrapeMeta, MetaRow)
          /\ ~ReferenceReturned /\ ReferenceReturned'
          /\ UNCHANGED <<extensions, extensionCoverage>>]_vars
  /\ [][ReferenceReturned /\ run' = run =>
          UNCHANGED <<extensions, extensionCoverage, scrapeMeta>>]_vars
  /\ [][~ReferenceReturned /\ ReferenceReturned' =>
          scrapeMeta' # scrapeMeta]_vars

C29_Witness ==
  /\ run = 2
  /\ process = "exit0"
  /\ Len(scrapeMeta) = 2
  /\ scrapeMeta[1] = scrapeMeta[2]
  /\ extensionCoverage # {}

\* a run in which a statement of importExtensions failed has added no row
C29_WitnessFailedRun ==
  /\ run = 2
  /\ process = "exit1"
  /\ mainPc = "failed"
  /\ Len(scrapeMeta) = 1

\* ------------------------------- specification: chunk, iteration by iteration
\* largest absolute value of the size argument that is tried
MaxSize == 3

\* longest arr that is tried
MaxArr == 4

\* the iterations of the loop that are followed; a call that has made this
\* many has not left the loop and is followed no further
MaxIterations == 6

\* a relative index of Array.prototype.slice: a negative index counts from
\* the end, and the result is clamped to 0..len
RelativeIndex(k, len) ==
  IF k < 0 THEN (IF len + k < 0 THEN 0 ELSE len + k)
  ELSE (IF k > len THEN len ELSE k)

\* arr.slice(from, to) for any integers from and to
SliceAny(arr, from, to) ==
  SubSeq(arr, RelativeIndex(from, Len(arr)) + 1, RelativeIndex(to, Len(arr)))

\* chunk(arr, size) has been called: const chunks = [], let i = 0
InitChunk ==
  /\ chunkArr \in {Iota(n) : n \in 0..MaxArr}
  /\ chunkSize \in (0 - MaxSize)..MaxSize
  /\ chunkAt = 0
  /\ chunks = <<>>
  /\ chunkPc = "loop"
  /\ input = <<>>
  /\ batchSize = 1
  /\ StreamInit
  /\ ImportIdle
  /\ RunnerIdle

\* i < arr.length holds: chunks.push(arr.slice(i, i + size)); i += size
ChunkPush ==
  /\ chunkPc = "loop"
  /\ chunkAt < Len(chunkArr)
  /\ Len(chunks) < MaxIterations
  /\ chunks' = Append(chunks, SliceAny(chunkArr, chunkAt, chunkAt + chunkSize))
  /\ chunkAt' = chunkAt + chunkSize
  /\ UNCHANGED <<chunkArr, chunkSize, chunkPc>>
  /\ UNCHANGED <<streamVars, importVars, runnerVars>>

\* i < arr.length fails: return chunks
ChunkReturn ==
  /\ chunkPc = "loop"
  /\ ~(chunkAt < Len(chunkArr))
  /\ chunkPc' = "returned"
  /\ UNCHANGED <<chunkArr, chunkSize, chunkAt, chunks>>
  /\ UNCHANGED <<streamVars, importVars, runnerVars>>

NextChunk ==
  \/ ChunkPush
  \/ ChunkReturn

SpecChunk == InitChunk /\ [][NextChunk]_vars

\* the call keeps running: an iteration that can be made is made
LiveChunk == SpecChunk /\ WF_vars(NextChunk)

\* the loop of chunk, followed iteration by iteration, computes chunk(arr, size)
ChunkStepsAgree ==
  (chunkPc = "returned" /\ chunkSize >= 1) =>
    chunks = chunk(chunkArr, chunkSize)

\* a call of chunk with a size >= 1, or with an empty arr, returns
ChunkReturnsForPositiveSize ==
  (chunkSize >= 1 \/ chunkArr = <<>>) => <>(chunkPc = "returned")

\* C31: chunk is total: for every arr and every integer size, zero and
\* negative sizes included, the call returns.  The loop is left when
\* i < arr.length fails, and nothing but the loop changes i: the call returns
\* exactly when every iteration moves i towards arr.length, and it then makes
\* at most arr.length iterations.
C31_ChunkTerminates ==
  /\ [][ChunkPush => chunkAt' > chunkAt]_vars
  /\ [](Len(chunks) <= Len(chunkArr))

\* C32: processBatches calls the processor of batch i (0-based) with that
\* batch and batchIndex i, and results holds, at every join and on success,
\* the values of the batches in batch order whatever order the processors of
\* a wave completed in; on success there is one value per batch.
C32_ResultsInBatchOrder ==
  /\ Len(calls) <= Len(batches)
  /\ \A j \in 1..Len(calls) :
       calls[j].batchIndex = j - 1 /\ calls[j].items = batches[j]
  /\ Len(runnerResults) <= Len(calls)
  /\ \A j \in 1..Len(runnerResults) :
       runnerResults[j] = j /\ calls[j].st = "resolved"
  /\ outcome = "resolved" =>
       value = runnerResults /\ Len(value) = Len(batches)

C32_Witness ==
  /\ outcome = "resolved"
  /\ Len(batches) = 7
  /\ concurrency = 3
  /\ value = <<1, 2, 3, 4, 5, 6, 7>>
  /\ calls[7].batchIndex = 6

\* a later batch of a wave completes before an earlier one
C32_OutOfOrderCompletion ==
  /\ runnerResults = <<1, 2, 3>>
  /\ Len(calls) = 6
  /\ calls[4].st = "pending"
  /\ calls[6].st = "resolved"

\* the ids of the rows of devices, and of extensions
DeviceIds == {d.id : d \in devices}

ExtensionIds == {e.id : e \in extensions}

\* C33: in every state of the import every device_extensions row references
\* an existing devices row and an existing extensions row, and every row of
\* the other dependent tables (device_limits stands for them) references an
\* existing devices row.
C33_ReferentialIntegrity ==
  /\ \A x \in deviceExtensions :
       x.deviceId \in DeviceIds /\ x.extensionId \in ExtensionIds
  /\ \A l \in deviceLimits : l.deviceId \in DeviceIds

C33_Witness ==
  /\ process = "exit0"
  /\ run = 2
  /\ Cardinality(devices) = 2
  /\ Cardinality(deviceExtensions) = 2
  /\ Cardinality(deviceLimits) = 2
  /\ \E i \in 1..Len(procs) :
       Len(procs[i].deviceResults) < Len(procs[i].deviceValues)

\* C34: in streamJsonArray at most CONCURRENCY + 1 invocations are started
\* and unresolved, under every interleaving: a pause awaits CONCURRENCY older
\* invocations and still dispatches the batch that triggered it, and while
\* the stream is paused no batch is dispatched; the stream is resumed only
\* when all the awaited invocations have resolved.
C34_AtMostConcurrencyPlusOne ==
  /\ [](Cardinality(InFlight) <= CONCURRENCY + 1)
  /\ [][(~paused /\ paused') =>
          /\ Len(calls') = Len(calls) + 1
          /\ Len(pauseGroup') = CONCURRENCY
          /\ \A i \in Range(pauseGroup') : i <= Len(calls)]_vars
  /\ [][paused => Len(calls') = Len(calls)]_vars
  /\ [][(paused /\ ~paused') => AllFulfilled(pauseGroup)]_vars

C34_Witness ==
  /\ paused
  /\ Cardinality(InFlight) = CONCURRENCY + 1
  /\ Len(calls) = 2 * CONCURRENCY + 1

\* ------------- specification: the script on reports that share report ids
\* longest device_reports.json of this specification, and its largest report id
MaxDupReports == 2

MaxDupRid == 2

\* the extensions arrays of these reports: the first lists "A"; the second
\* lists "A" with another specVersion, and "B"
DupExtLists ==
  {<<[extensionName |-> "A", specVersion |-> 1]>>,
   <<[extensionName |-> "A", specVersion |-> 2],
     [extensionName |-> "B", specVersion |-> 1]>>}

\* the device_reports.json files tried: well-formed reports whose report ids
\* may repeat and whose extensions arrays may differ
DuplicateFiles ==
  {[i \in 1..Len(f) |->
      [rid |-> f[i][1], src |-> i, exts |-> f[i][2], shape |-> "ok"]] :
     f \in SeqsUpTo((1..MaxDupRid) \X DupExtLists, MaxDupReports)}

\* extensions.json lists "A" and "B"
BothListed ==
  [i \in 1..2 |->
     [name |-> <<"A", "B">>[i], coverage |-> "<span>95.0</span>",
      features_url |-> "null", properties_url |-> "x", date |-> "2020-01-01"]]

InitDuplicates ==
  /\ input \in DuplicateFiles
  /\ batchSize \in 1..MaxDeviceBatch
  /\ extFile = BothListed
  /\ platFile \in PlatFiles
  /\ summary = [scrape_date |-> "2025-01-01", total_extensions |-> Len(extFile),
                total_reports |-> 1000]
  /\ run = 1
  /\ extensions = {}
  /\ extensionCoverage = {}
  /\ devices = {}
  /\ deviceExtensions = {}
  /\ deviceLimits = {}
  /\ scrapeMeta = <<>>
  /\ extSeq = 1
  /\ devSeq = 1
  /\ covSeq = 1
  /\ failures = 0
  /\ snap = <<>>
  /\ ScriptStart
  /\ RunnerIdle
  /\ ChunkIdle

SpecDuplicates == InitDuplicates /\ [][NextBatch]_vars

\* the report whose devices row this is
ReportOf(d) == input[d.src]

\* the device_extensions row derives from this report: the report lists the
\* extension of the row, with the specVersion of the row
LinkDerivesFrom(x, report) ==
  \E k \in 1..Len(report.exts) :
    /\ report.exts[k].specVersion = x.specVersion
    /\ \E e \in extensions :
         e.id = x.extensionId /\ e.name = report.exts[k].extensionName

\* every device_limits row derives from the report whose devices row it
\* belongs to
LimitsFromInsertedReport ==
  \A l \in deviceLimits : \A d \in devices :
    d.id = l.deviceId => l.src = d.src

\* C35: every dependent row stored for a device derives from the report whose
\* devices row was inserted, also when the batch holds another report with
\* the same report id: no row derived from the skipped report is attached to
\* the device.
C35_DependentsFromInsertedReport ==
  /\ LimitsFromInsertedReport
  /\ \A x \in deviceExtensions : \A d \in devices :
       d.id = x.deviceId => LinkDerivesFrom(x, ReportOf(d))

\* C36: when a device import has ended, imported + errors <= processed: no
\* report is counted both as imported and as an error, or twice as an error.
C36_CountersWithinProcessed ==
  (mainPc = "complete" /\ outcome = "resolved") =>
    totalImported + totalErrors <= value

\* C37 (as claimed): once the promise of streamJsonArray is rejected, by a
\* rejected invocation of an awaited group or by a stream error, no invocation
\* is started any more: the stream is never resumed, no element is delivered
\* and the 'end' handler does not run, so that no batch, the final partial
\* batch included, is dispatched.
C37_NeverResumedAfterRejection ==
  [][outcome = "rejected" =>
       /\ Len(calls') = Len(calls)
       /\ paused => paused'
       /\ pos' = pos
       /\ ended' = ended
       /\ outcome' = "rejected"]_vars

\* C37 (amended): the same, where the stream is never resumed after the
\* rejection of an awaited invocation; after a stream error raised during a
\* pause, pipeline.resume() is still called when the awaited group resolves,
\* on a stream that delivers nothing any more.
C37_NoDispatchAfterRejection ==
  [][outcome = "rejected" =>
       /\ Len(calls') = Len(calls)
       /\ (paused /\ streamState = "open") => paused'
       /\ pos' = pos
       /\ ended' = ended
       /\ outcome' = "rejected"]_vars

C37_Witness ==
  /\ outcome = "rejected"
  /\ streamState = "open"
  /\ paused
  /\ InFlight = {}
  /\ pos < Len(input)
  /\ Len(calls) = CONCURRENCY + 1

C37_WitnessStreamError ==
  /\ outcome = "rejected"
  /\ streamState = "streamArray"
  /\ batch # <<>>
  /\ pos < Len(input)
  /\ InFlight = {}

\* the dependent tables hold the rows they held when the first run completed
\* (device_extensions and device_limits stand for the six tables)
SameDependentsAsFirstRun ==
  /\ deviceExtensions = snap.deviceExtensions
  /\ deviceLimits = snap.deviceLimits

MaxDeviceFailures == 3

\* device_reports.json: CONCURRENCY + 1 well-formed reports with distinct
\* report ids, each listing "A", so that the stream pauses when every batch
\* holds one report
FailureFile ==
  [i \in 1..(CONCURRENCY + 1) |->
     [rid |-> i, src |-> i,
      exts |-> <<[extensionName |-> "A", specVersion |-> 1]>>, shape |-> "ok"]]

\* the script starts on these files; failures counts the failed statements up
\* to MaxFailures, and starts below zero here so that MaxDeviceFailures of
\* them can fail
InitFailures ==
  /\ input = FailureFile
  /\ batchSize = 1
  /\ extFile = SubSeq(BothListed, 1, 1)
  /\ platFile \in PlatFiles \ {EmptyMap}
  /\ summary = [scrape_date |-> "2025-01-01", total_extensions |-> Len(extFile),
                total_reports |-> 1000]
  /\ run = 1
  /\ extensions = {}
  /\ extensionCoverage = {}
  /\ devices = {}
  /\ deviceExtensions = {}
  /\ deviceLimits = {}
  /\ scrapeMeta = <<>>
  /\ extSeq = 1
  /\ devSeq = 1
  /\ covSeq = 1
  /\ failures = MaxFailures - MaxDeviceFailures
  /\ snap = <<>>
  /\ ScriptStart
  /\ RunnerIdle
  /\ ChunkIdle

SpecFailures == InitFailures /\ [][NextImport]_vars


\* the invocations of processBatch in which a catch block has run
CaughtIn == {i \in 1..Len(procs) : procs[i].caught # <<>>}

\* a statement of the device phase fails in this step
DeviceStatementFails == DevicesInsertFails \/ RelatedInsertFails

\* the statements processBatch awaits
DeviceStatements == {"devices", "deviceExtensions", "deviceLimits"}

\* C39: processBatch never rejects because of a database failure: whichever
\* of its statements fail, no invocation rejects; an invocation that has not
\* resolved awaits one of its statements, also after a catch block has run,
\* so a paused stream waits only for invocations that resolve when their
\* statements settle; the step in which a statement fails leaves the stream,
\* the promise of streamJsonArray and the process as they are, and resolves
\* the invocation when the failed statement was its last; the run fails
\* during the device phase only through a stream error; and when the stream
\* has not failed, streamJsonArray resolves only after every invocation has.
C39_DatabaseFailureNeverRejects ==
  /\ [](\A i \in 1..Len(calls) :
          \/ calls[i].st = "resolved" /\ procs[i].pc = "done"
          \/ calls[i].st = "pending" /\ procs[i].pc \in DeviceStatements)
  /\ [][DeviceStatementFails =>
          /\ process' = process
          /\ outcome' = outcome
          /\ streamState' = streamState
          /\ paused' = paused
          /\ ended' = ended
          /\ \E i \in 1..Len(procs) :
               /\ procs'[i].caught = Append(procs[i].caught, procs[i].pc)
               /\ procs'[i].pc \in DeviceStatements \cup {"done"}
               /\ procs[i].pc = "devices" => calls'[i].st = "resolved"]_vars
  /\ []((procs # <<>> /\ process \in {"exit1", "crashed"}) => streamState # "open")
  /\ []((mainPc = "complete" /\ streamState = "open") =>
          \A i \in 1..Len(calls) : calls[i].st = "resolved")

\* the script completed with status 0 although three statements failed, in
\* two invocations, one of them in the group the paused stream waited for
C39_Witness ==
  /\ process = "exit0"
  /\ run = 1
  /\ Len(calls) = CONCURRENCY + 1
  /\ Cardinality(CaughtIn) >= 2
  /\ \E i \in CaughtIn : Len(procs[i].caught) = 2
  /\ \E i \in CaughtIn : procs[i].caught = <<"devices">> /\ i <= CONCURRENCY

====
